---- MODULE Spec2Model ----
(***************************************************************************)
(* Status line tool: session tracker (write-through variant of             *)
(* src/tools/statusline.go and debounced variant of src/unnamed/part_001),  *)
(* reverse line reader, the fan-out/fan-in of main, the git-branch cache,   *)
(* the transcript scans and the aggregate query over the session files.     *)
(*                                                                         *)
(* Time is the clock reading in whole seconds (time.Now().Unix()); the     *)
(* several clock readings of one updateSession call are one reading,       *)
(* except where calls run side by side (the host and the processes at the  *)
(* end), where each reading is taken when its statement runs.              *)
(***************************************************************************)
EXTENDS Integers, Sequences, FiniteSets, TLC

VARIABLES
    variant,       \* which build runs: "writeThrough" or "debounced"
    now,           \* last clock reading, seconds
    disk,          \* session store: session id -> file
    sessionCache,  \* debounced variant: session id -> write-cache entry
    lastCall,      \* what the most recent updateSession call loaded and produced
    beats,         \* history: session id -> clock readings of its heartbeats
    hist,          \* history: session id -> flags over the calls made so far
    faults,        \* number of environment faults injected so far
    rd,            \* readLastLines: the state of one call
    input,         \* render: the decoded snapshot
    fpc,           \* render: fetcher goroutine -> position
    floc,          \* render: fetcher goroutine -> its local value
    cpc,           \* render: position of the goroutine that closes the channel
    results,       \* render: the buffered result channel
    closed,        \* render: whether the result channel is closed
    wg,            \* render: the WaitGroup counter
    mainPc,        \* render: position of main
    got,           \* render: main's four result variables
    out,           \* render: what main has written to standard output
    errs,          \* render: what the process has written to the error stream
    exitCode,      \* render: the exit status of the process, once it has one
    renders,       \* number of renders started
    gitBranchCache,    \* getGitBranch: the cached branch name
    gitBranchExpires,  \* getGitBranch: the clock reading at which the cache expires
    cacheMutex,        \* getGitBranch: the holders of the read-write lock
    gpc,           \* getGitBranch: caller -> position in its call
    gloc,          \* getGitBranch: caller -> the locals and the record of its call
    gitHist,       \* getGitBranch: calls started, clock ticks, and which update last wrote each field
    tx,            \* analyzeContext and extractUserMessage: one transcript and the results
    hq,            \* calculateTotalHours: one session directory and the result
    host,          \* long-lived host: goroutines calling updateSession, the lock, the cache
    procs          \* write-through processes running updateSession side by side

trackerVars == <<variant, now, disk, sessionCache, lastCall, beats, hist, faults>>
readerVars == <<rd>>
renderVars == <<input, fpc, floc, cpc, results, closed, wg, mainPc, got, out, errs, exitCode, renders>>
gitVars == <<gitBranchCache, gitBranchExpires, cacheMutex, gpc, gloc, gitHist>>
concVars == <<host, procs>>
fnVars == <<gitBranchCache, gitBranchExpires, cacheMutex, gpc, gloc, gitHist, tx, hq, host, procs>>
vars == <<variant, now, disk, sessionCache, lastCall, beats, hist, faults,
          rd, input, fpc, floc, cpc, results, closed, wg, mainPc, got, out, errs, exitCode, renders,
          gitBranchCache, gitBranchExpires, cacheMutex, gpc, gloc, gitHist, tx, hq,
          host, procs>>

----------------------------------------------------------------------------
(* Bounds of the model *)

\* heartbeats explored per session id
MaxBeats == 3
\* concurrent callers of getGitBranch
MaxCallers == 2
\* environment faults (failed write, corrupted file, clock set back,
\* unavailable home directory) explored per behaviour
MaxFaults == 1

\* the clock reading at which the model starts
StartTime == 1000

\* Clock advances between two clock readings, in seconds: none, within the
\* debounce window, at the debounce window, just below and at the session
\* timeout.
ClockSteps == {0, 1, 2, 599, 600}
\* Amounts by which the wall clock may be set back between two readings.
ClockSetBacks == {1, 700}

SessionIds == {"s1"}
Variants == {"writeThrough", "debounced"}

----------------------------------------------------------------------------
(* Program constants *)

SessionTimeoutSeconds == 600
sessionWriteDebounce == 2
SecondsPerDay == 86400

----------------------------------------------------------------------------
(* Session records and their files *)

\* A *int64: <<>> is nil, <<t>> points to t.
Nil == <<>>
Ptr(t) == <<t>>
Deref(p) == p[1]

\* time.Now().Format("2006-01-02"): the calendar day of a clock reading
DateOf(t) == t \div SecondsPerDay

createNewSession(sessionID, date, currentTime) ==
    [ ID |-> sessionID,
      Date |-> date,
      Start |-> currentTime,
      LastHeartbeat |-> currentTime,
      TotalSeconds |-> 0,
      Intervals |-> << [Start |-> currentTime, End |-> Nil] >> ]

\* JSON values of the "end" field
JNull == [t |-> "null"]
JNum(n) == [t |-> "num", n |-> n]

NoFile == [kind |-> "missing"]
CorruptFile == [kind |-> "corrupt"]

\* json.Marshal(session): End nil is written as null
Marshal(session) ==
    [ kind |-> "json",
      id |-> session.ID,
      date |-> session.Date,
      start |-> session.Start,
      last_heartbeat |-> session.LastHeartbeat,
      total_seconds |-> session.TotalSeconds,
      intervals |-> [ i \in DOMAIN session.Intervals |->
                        [ start |-> session.Intervals[i].Start,
                          end |-> IF session.Intervals[i].End = Nil
                                    THEN JNull
                                    ELSE JNum(Deref(session.Intervals[i].End)) ] ] ]

\* json.Unmarshal(data, &session) of a file that parses
Unmarshal(file) ==
    [ ID |-> file.id,
      Date |-> file.date,
      Start |-> file.start,
      LastHeartbeat |-> file.last_heartbeat,
      TotalSeconds |-> file.total_seconds,
      Intervals |-> [ i \in DOMAIN file.intervals |->
                        [ Start |-> file.intervals[i].start,
                          End |-> IF file.intervals[i].end.t = "null"
                                    THEN Nil
                                    ELSE Ptr(file.intervals[i].end.n) ] ] ]

\* A load that keeps the zero Session when the file does not parse
LoadSessionNoReinit(file, sessionID, today, currentTime) ==
    CASE file.kind = "json" -> Unmarshal(file)
      [] file.kind = "corrupt" ->
            [ ID |-> "", Date |-> -1, Start |-> 0, LastHeartbeat |-> 0,
              TotalSeconds |-> 0, Intervals |-> << >> ]
      [] OTHER -> createNewSession(sessionID, today, currentTime)

\* The load of updateSession: the file's record when it can be read and
\* parses, a new session otherwise
LoadSession(file, sessionID, today, currentTime) ==
    IF file.kind = "json"
      THEN Unmarshal(file)
      ELSE createNewSession(sessionID, today, currentTime)

\* TotalOf as a running total would be: the last interval's duration only
TotalOfLastOnly(intervals) ==
    IF intervals = << >> \/ intervals[Len(intervals)].End = Nil
      THEN 0
      ELSE Deref(intervals[Len(intervals)].End) - intervals[Len(intervals)].Start

\* "Calculate total time": the sum over the intervals whose End is not nil
RECURSIVE TotalOf(_)
TotalOf(intervals) ==
    IF intervals = << >>
      THEN 0
      ELSE LET n == Len(intervals)
               rest == TotalOf(SubSeq(intervals, 1, n - 1))
           IN IF intervals[n].End # Nil
                THEN rest + (Deref(intervals[n].End) - intervals[n].Start)
                ELSE rest

\* HeartbeatIntervals with the timeout compared by <= : a gap of exactly the
\* timeout extends the last interval
HeartbeatIntervalsInclusive(session, currentTime) ==
    LET gap == currentTime - session.LastHeartbeat
        n == Len(session.Intervals)
    IN IF gap <= SessionTimeoutSeconds
         THEN IF n > 0
                THEN [session.Intervals EXCEPT ![n].End = Ptr(currentTime)]
                ELSE session.Intervals
         ELSE Append(session.Intervals,
                     [Start |-> currentTime, End |-> Ptr(currentTime)])

\* HeartbeatIntervals that extends only when time has passed: the interval of
\* a new session stays open
HeartbeatIntervalsSkipsZeroGap(session, currentTime) ==
    LET gap == currentTime - session.LastHeartbeat
        n == Len(session.Intervals)
    IN IF gap < SessionTimeoutSeconds
         THEN IF n > 0 /\ gap > 0
                THEN [session.Intervals EXCEPT ![n].End = Ptr(currentTime)]
                ELSE session.Intervals
         ELSE Append(session.Intervals,
                     [Start |-> currentTime, End |-> Ptr(currentTime)])

\* HeartbeatIntervals that puts the new interval first
HeartbeatIntervalsPrepends(session, currentTime) ==
    LET gap == currentTime - session.LastHeartbeat
        n == Len(session.Intervals)
    IN IF gap < SessionTimeoutSeconds
         THEN IF n > 0
                THEN [session.Intervals EXCEPT ![n].End = Ptr(currentTime)]
                ELSE session.Intervals
         ELSE <<[Start |-> currentTime, End |-> Ptr(currentTime)]>> \o session.Intervals

\* "Update heartbeat": extend the last interval or append a new one
HeartbeatIntervals(session, currentTime) ==
    LET gap == currentTime - session.LastHeartbeat
        n == Len(session.Intervals)
    IN IF gap < SessionTimeoutSeconds
         THEN IF n > 0
                THEN [session.Intervals EXCEPT ![n].End = Ptr(currentTime)]
                ELSE session.Intervals
         ELSE Append(session.Intervals,
                     [Start |-> currentTime, End |-> Ptr(currentTime)])

\* Heartbeat that forgets to store the heartbeat time
HeartbeatStale(session, currentTime) ==
    LET ivs == HeartbeatIntervals(session, currentTime)
    IN [session EXCEPT !.Intervals = ivs,
                       !.TotalSeconds = TotalOf(ivs)]

\* The in-memory part of updateSession after the load
Heartbeat(session, currentTime) ==
    LET ivs == HeartbeatIntervals(session, currentTime)
    IN [session EXCEPT !.LastHeartbeat = currentTime,
                       !.Intervals = ivs,
                       !.TotalSeconds = TotalOf(ivs)]

\* os.WriteFile(path, data, 0644): the file after the call. It may fail
\* before the file is opened (file unchanged) or after it was truncated
\* (a file that no longer parses).
WriteOutcomes == {"ok", "openFail", "shortWrite"}
WriteFile(old, data, outcome) ==
    CASE outcome = "ok" -> data
      [] outcome = "openFail" -> old
      [] outcome = "shortWrite" -> CorruptFile

----------------------------------------------------------------------------
(* Write-cache of the debounced variant *)

NoEntry == [present |-> FALSE]
CacheEntry(session, lastWrite, dirty) ==
    [present |-> TRUE, session |-> session, lastWrite |-> lastWrite, dirty |-> dirty]

\* The write is never skipped
DebounceElapsedAlways(currentTime, lastWrite) == TRUE

\* Whether the debounced updateSession writes: time.Since(lastWrite) >= debounce
DebounceElapsed(currentTime, lastWrite) ==
    currentTime - lastWrite >= sessionWriteDebounce

----------------------------------------------------------------------------
(* updateSession *)

\* What one call of updateSession leaves behind: the file, the write-cache
\* entry, and (for the properties) the record it loaded, the record it
\* produced and whether it attempted the write.
CallResult(file, entry, before, after, wrote) ==
    [file |-> file, entry |-> entry, before |-> before, after |-> after, wrote |-> wrote]

\* src/tools/statusline.go: read, heartbeat, write on every call
UpdateSessionWriteThrough(file, entry, sid, t, outcome) ==
    LET before == LoadSession(file, sid, DateOf(t), t)
        after == Heartbeat(before, t)
    IN CallResult(WriteFile(file, Marshal(after), outcome), entry, before, after, TRUE)

\* src/unnamed/part_001: load into the write-cache when the id has no entry,
\* heartbeat, write when the debounce window has passed since lastWrite.
\* t is currentTime, read before the lock is taken; tLoad and tWrite are the
\* readings of time.Now() when the entry is created and when the debounce
\* is tested and lastWrite set.
UpdateSessionDebouncedAt(file, entry, sid, t, tLoad, tWrite, outcome) ==
    LET loaded == IF entry.present
                    THEN entry
                    ELSE CacheEntry(LoadSession(file, sid, DateOf(t), t), tLoad, FALSE)
        after == Heartbeat(loaded.session, t)
    IN IF DebounceElapsed(tWrite, loaded.lastWrite)
         THEN CallResult(WriteFile(file, Marshal(after), outcome),
                         CacheEntry(after, tWrite, FALSE), loaded.session, after, TRUE)
         ELSE CallResult(file, CacheEntry(after, loaded.lastWrite, TRUE),
                         loaded.session, after, FALSE)

\* The call when nothing else runs: its clock readings are one reading
UpdateSessionDebounced(file, entry, sid, t, outcome) ==
    UpdateSessionDebouncedAt(file, entry, sid, t, t, t, outcome)

updateSession(file, entry, sid, t, outcome) ==
    IF variant = "writeThrough"
      THEN UpdateSessionWriteThrough(file, entry, sid, t, outcome)
      ELSE UpdateSessionDebounced(file, entry, sid, t, outcome)

----------------------------------------------------------------------------
(* History kept for the properties *)

NoCall == [kind |-> "none"]
\* wroteAt: the clock reading of the latest call of the process holding the
\* entry that wrote the file (none yet: Nil); total: total_seconds after the
\* latest heartbeat
NoHist == [allFresh |-> TRUE, clean |-> TRUE, oneProc |-> TRUE,
           wroteAt |-> Nil, total |-> 0]

Fetchers == {"git", "hours", "context", "message"}

EmptyStore == [sid \in SessionIds |-> NoFile]
EmptyCache == [sid \in SessionIds |-> NoEntry]
NoBeats == [sid \in SessionIds |-> << >>]
NoHistory == [sid \in SessionIds |-> NoHist]
NoReaderCall == [pc |-> "idle"]
NoGoroutines == [f \in Fetchers |-> "idle"]
\* the locals of a fetcher goroutine: the directory entries listed (the
\* aggregate query only) and the string it returns
NoLocal == [entries |-> {}, data |-> ""]
NoLocals == [f \in Fetchers |-> NoLocal]
\* main's variables gitBranch, totalHours, contextUsage and userMessage
\* before the collection loop, each with the number of Results received for it
NothingCollected == [f \in Fetchers |-> [n |-> 0, v |-> ""]]

\* getGitBranch: its callers, the zero time.Time, the lock with no holder, a
\* caller's locals before its call, and the history before any call
Callers == 1..MaxCallers
ZeroTime == 0
Unlocked == [readers |-> {}, writers |-> {}]
NoGitLocals ==
    [ id |-> 0, fresh |-> FALSE, cached |-> "", seenExpBy |-> -1,
      seenCacheBy |-> -1, result |-> "", cmd |-> "none", branch |-> "",
      wrote |-> FALSE, ret |-> "" ]
NoGitCallers == [c \in Callers |-> "idle"]
NoGitCalls == [c \in Callers |-> NoGitLocals]
NoGitHistory == [calls |-> 0, ticks |-> 0, cacheBy |-> 0, expBy |-> 0]
NoTranscript == [pc |-> "idle"]
NoDirectory == [pc |-> "idle"]
NoHost == [pc |-> "idle"]
NoProcs == [pc |-> "idle"]

\* The clock readings a call may see: the clock has advanced, or (a fault)
\* the wall clock was set back
ClockReadings ==
    {now + d : d \in ClockSteps}
      \cup (IF faults < MaxFaults
              THEN {t \in {now - d : d \in ClockSetBacks} : t >= 0}
              ELSE {})

\* Faults one call uses up: a clock set back before it, a failed write in it
FaultsOf(t, res, outcome) ==
    (IF t < now THEN 1 ELSE 0) + (IF res.wrote /\ outcome # "ok" THEN 1 ELSE 0)

----------------------------------------------------------------------------
(* Actions of the session tracker *)

\* The effect of one completed call of updateSession(sid) at clock reading t
\* on the store, the write-cache and the history
ApplyUpdateSession(sid, t, outcome) ==
    LET res == updateSession(disk[sid], sessionCache[sid], sid, t, outcome)
    IN /\ faults + FaultsOf(t, res, outcome) <= MaxFaults
       /\ ~res.wrote => outcome = "ok"
       /\ now' = t
       /\ disk' = [disk EXCEPT ![sid] = res.file]
       /\ sessionCache' = [sessionCache EXCEPT ![sid] = res.entry]
       /\ lastCall' = [ kind |-> "update", sid |-> sid, at |-> t,
                        file |-> disk[sid].kind,
                        cached |-> sessionCache[sid].present,
                        before |-> res.before, after |-> res.after,
                        wrote |-> res.wrote, outcome |-> outcome,
                        prevWrite |-> IF sessionCache[sid].present
                                        THEN hist[sid].wroteAt ELSE Nil,
                        prevTotal |-> hist[sid].total ]
       /\ beats' = [beats EXCEPT ![sid] = Append(@, t)]
       /\ hist' = [hist EXCEPT ![sid] =
                     [ allFresh |-> @.allFresh /\ ~sessionCache[sid].present,
                       clean |-> @.clean /\ outcome = "ok",
                       oneProc |-> @.oneProc /\
                           (beats[sid] = << >> \/ sessionCache[sid].present),
                       wroteAt |-> IF res.wrote THEN Ptr(t)
                                   ELSE IF sessionCache[sid].present THEN @.wroteAt
                                   ELSE Nil,
                       total |-> res.after.TotalSeconds ]]
       /\ faults' = faults + FaultsOf(t, res, outcome)
       /\ variant' = variant

\* updateSession returned at once: os.UserHomeDir or os.MkdirAll failed
ApplyUpdateSessionNoDir(sid) ==
    /\ faults < MaxFaults
    /\ faults' = faults + 1
    /\ lastCall' = [kind |-> "nodir", sid |-> sid]
    /\ UNCHANGED <<fnVars, variant, now, disk, sessionCache, beats, hist>>

\* A heartbeat: updateSession(sid) runs to completion at clock reading t
UpdateSession(sid) ==
    /\ Len(beats[sid]) < MaxBeats
    /\ \E t \in ClockReadings, outcome \in WriteOutcomes :
          ApplyUpdateSession(sid, t, outcome)
    /\ UNCHANGED <<fnVars, readerVars, renderVars>>

\* updateSession returns at once: os.UserHomeDir or os.MkdirAll failed
UpdateSessionNoDir(sid) ==
    /\ ApplyUpdateSessionNoDir(sid)
    /\ UNCHANGED <<fnVars, readerVars, renderVars>>

\* The process ends: its write-cache is gone, the files stay
ProcessExit ==
    /\ \E sid \in SessionIds : sessionCache[sid].present
    /\ sessionCache' = EmptyCache
    /\ lastCall' = NoCall
    /\ UNCHANGED <<fnVars, variant, now, disk, beats, hist, faults, readerVars, renderVars>>

\* The environment damages a session file (a torn or truncated file)
CorruptSessionFile(sid) ==
    /\ faults < MaxFaults
    /\ disk[sid].kind = "json"
    /\ disk' = [disk EXCEPT ![sid] = CorruptFile]
    /\ hist' = [hist EXCEPT ![sid].clean = FALSE]
    /\ faults' = faults + 1
    /\ UNCHANGED <<fnVars, variant, now, sessionCache, lastCall, beats, readerVars, renderVars>>

----------------------------------------------------------------------------
(* Initial states *)

\* An empty session store and no process, under either build
InitTracker ==
    /\ variant \in Variants
    /\ now = StartTime
    /\ disk = EmptyStore
    /\ sessionCache = EmptyCache
    /\ lastCall = NoCall
    /\ beats = NoBeats
    /\ hist = NoHistory
    /\ faults = 0
    /\ host = NoHost
    /\ procs = NoProcs
    /\ rd = NoReaderCall
    /\ input = [ok |-> FALSE]
    /\ fpc = NoGoroutines
    /\ floc = NoLocals
    /\ cpc = "idle"
    /\ results = << >>
    /\ closed = FALSE
    /\ wg = 0
    /\ mainPc = "idle"
    /\ got = NothingCollected
    /\ out = << >>
    /\ errs = << >>
    /\ exitCode = "none"
    /\ renders = 0
    /\ gitBranchCache = ""
    /\ gitBranchExpires = ZeroTime
    /\ cacheMutex = Unlocked
    /\ gpc = NoGitCallers
    /\ gloc = NoGitCalls
    /\ gitHist = NoGitHistory
    /\ tx = NoTranscript
    /\ hq = NoDirectory

NextTracker ==
    \/ \E sid \in SessionIds : UpdateSession(sid)
    \/ \E sid \in SessionIds : UpdateSessionNoDir(sid)
    \/ \E sid \in SessionIds : CorruptSessionFile(sid)
    \/ ProcessExit

SpecTracker == InitTracker /\ [][NextTracker]_vars

----------------------------------------------------------------------------
(* readLastLines, the reverse reader of src/unnamed/part_001 *)

\* longest file explored, in bytes
MaxFileLen == 7
\* largest maxLines explored
MaxLinesBound == 3
\* The block size. The source reads blocks of 8192 bytes; the model reads
\* blocks of this many bytes, so that block boundaries fall inside, at and
\* between the lines of the bounded files.
chunkSize == 3

NL == "\n"
Bytes == {NL, "a", "b"}
Files == UNION {[1..n -> Bytes] : n \in 0..MaxFileLen}

Min(a, b) == IF a < b THEN a ELSE b

\* buf[a:b] of Go: the bytes at the 0-based positions a .. b-1
Slice(buf, a, b) == SubSeq(buf, a + 1, b)

\* readSize := min(int64(chunkSize), offset)
ReadSize(offset) == Min(chunkSize, offset)

\* "Find newlines from end to start": the inner loop from position i down,
\* with the lines found so far; returned is set when the loop returned from
\* readLastLines with maxLines lines
RECURSIVE ScanFrom(_, _, _, _, _)
ScanFrom(buf, i, lineEnd, lines, maxLines) ==
    IF i < 0
      THEN [lines |-> lines, lineEnd |-> lineEnd, returned |-> FALSE]
      ELSE IF buf[i + 1] = NL
             THEN IF i + 1 < lineEnd
                    THEN LET found == <<Slice(buf, i + 1, lineEnd)>> \o lines
                         IN IF Len(found) >= maxLines
                              THEN [lines |-> found, lineEnd |-> i, returned |-> TRUE]
                              ELSE ScanFrom(buf, i - 1, i, found, maxLines)
                    ELSE ScanFrom(buf, i - 1, i, lines, maxLines)
             ELSE ScanFrom(buf, i - 1, lineEnd, lines, maxLines)

Scan(buf, lines, maxLines) == ScanFrom(buf, Len(buf) - 1, Len(buf), lines, maxLines)

\* The offset of the next block, one byte too low: a byte between two
\* blocks is never read
BlockOffsetSkipping(offset) ==
    IF offset > chunkSize THEN offset - chunkSize - 1 ELSE 0

\* offset -= readSize
BlockOffset(offset) == offset - ReadSize(offset)

\* dropCR of bufio: a line loses one trailing carriage return
dropCR(line) ==
    IF Len(line) > 0 /\ line[Len(line)] = "\r"
      THEN SubSeq(line, 1, Len(line) - 1)
      ELSE line

\* bufio.ScanLines over the whole file: every newline ends a token, and the
\* bytes after the last newline are a last token when there are any
RECURSIVE ScanLines(_, _)
ScanLines(data, cur) ==
    IF data = << >>
      THEN (IF cur = << >> THEN << >> ELSE <<dropCR(cur)>>)
      ELSE IF Head(data) = NL
             THEN <<dropCR(cur)>> \o ScanLines(Tail(data), << >>)
             ELSE ScanLines(Tail(data), Append(cur, Head(data)))

\* readLastLines of src/tools/statusline.go, the forward reader: all lines
\* of the file are scanned and allLines[max(0, len-maxLines):] is returned
ForwardReadLastLines(exists, data, maxLines) ==
    IF ~exists
      THEN [lines |-> << >>, err |-> TRUE]
      ELSE LET allLines == ScanLines(data, << >>)
               start == IF Len(allLines) - maxLines > 0
                          THEN Len(allLines) - maxLines ELSE 0
           IN [lines |-> SubSeq(allLines, start + 1, Len(allLines)), err |-> FALSE]

\* One call: the file at the path (or none), maxLines, and the locals
ReaderStart(exists, data, maxLines) ==
    [ pc |-> "open", exists |-> exists, data |-> data, maxLines |-> maxLines,
      offset |-> 0, lines |-> << >>, partial |-> << >>, reads |-> << >>,
      err |-> FALSE ]

ReaderCalls ==
    {ReaderStart(TRUE, f, n) : f \in Files, n \in 1..MaxLinesBound}
        \cup {ReaderStart(FALSE, << >>, n) : n \in 1..MaxLinesBound}

\* A call of readLastLines on any file of the bounds, or on a path that
\* cannot be opened; nothing else runs
InitReader ==
    /\ rd \in ReaderCalls
    /\ variant = "debounced"
    /\ now = StartTime
    /\ disk = EmptyStore
    /\ sessionCache = EmptyCache
    /\ lastCall = NoCall
    /\ beats = NoBeats
    /\ hist = NoHistory
    /\ faults = 0
    /\ host = NoHost
    /\ procs = NoProcs
    /\ input = [ok |-> FALSE]
    /\ fpc = NoGoroutines
    /\ floc = NoLocals
    /\ cpc = "idle"
    /\ results = << >>
    /\ closed = FALSE
    /\ wg = 0
    /\ mainPc = "idle"
    /\ got = NothingCollected
    /\ out = << >>
    /\ errs = << >>
    /\ exitCode = "none"
    /\ renders = 0
    /\ gitBranchCache = ""
    /\ gitBranchExpires = ZeroTime
    /\ cacheMutex = Unlocked
    /\ gpc = NoGitCallers
    /\ gloc = NoGitCalls
    /\ gitHist = NoGitHistory
    /\ tx = NoTranscript
    /\ hq = NoDirectory

\* os.Open, file.Stat and the empty-file case
ReaderOpen ==
    /\ rd.pc = "open"
    /\ rd' = IF ~rd.exists
               THEN [rd EXCEPT !.pc = "done", !.err = TRUE]
               ELSE IF Len(rd.data) = 0
                      THEN [rd EXCEPT !.pc = "done"]
                      ELSE [rd EXCEPT !.pc = "loop", !.offset = Len(rd.data)]
    /\ UNCHANGED <<fnVars, trackerVars, renderVars>>

\* One iteration of the block loop: read the block before offset, put the
\* carried partial line after it, scan, and carry what is left
ReaderBlock ==
    /\ rd.pc = "loop"
    /\ rd.offset > 0 /\ Len(rd.lines) < rd.maxLines
    /\ LET readSize == ReadSize(rd.offset)
           offset == BlockOffset(rd.offset)
           buf == Slice(rd.data, offset, offset + readSize) \o rd.partial
           sc == Scan(buf, rd.lines, rd.maxLines)
           read == [off |-> offset, size |-> readSize, have |-> Len(rd.lines)]
       IN rd' = IF sc.returned
                  THEN [rd EXCEPT !.pc = "done", !.offset = offset, !.lines = sc.lines,
                                  !.partial = << >>, !.reads = Append(@, read)]
                  ELSE [rd EXCEPT !.offset = offset, !.lines = sc.lines,
                                  !.partial = Slice(buf, 0, sc.lineEnd),
                                  !.reads = Append(@, read)]
    /\ UNCHANGED <<fnVars, trackerVars, renderVars>>

\* file.ReadAt fails: readLastLines returns the error
ReaderReadFails ==
    /\ rd.pc = "loop"
    /\ rd.offset > 0 /\ Len(rd.lines) < rd.maxLines
    /\ rd' = [rd EXCEPT !.pc = "done", !.err = TRUE, !.lines = << >>]
    /\ UNCHANGED <<fnVars, trackerVars, renderVars>>

\* After the loop: "Handle remaining partial line (first line of file)"
ReaderFinish ==
    /\ rd.pc = "loop"
    /\ ~(rd.offset > 0 /\ Len(rd.lines) < rd.maxLines)
    /\ rd' = [rd EXCEPT !.pc = "done",
                        !.lines = IF Len(rd.partial) > 0 /\ Len(rd.lines) < rd.maxLines
                                    THEN <<rd.partial>> \o @
                                    ELSE @]
    /\ UNCHANGED <<fnVars, trackerVars, renderVars>>

NextReader == ReaderOpen \/ ReaderBlock \/ ReaderReadFails \/ ReaderFinish

SpecReader == InitReader /\ [][NextReader]_vars

----------------------------------------------------------------------------
(* main: one render per process *)

\* renders explored per behaviour
MaxRenders == 2

\* Seconds between the start of two renders: the next prompt, or a return
\* after the session timeout. The clock readings of one render are equal.
RenderClockSteps == {1, 600}

\* capacity of the result channel: make(chan Result, 4)
ResultsCap == 4

\* strings.HasPrefix, strings.HasSuffix and strings.Contains over a string
\* given as the sequence of its tokens
HasPrefix(content, p) == Len(content) > 0 /\ content[1] = p
HasSuffix(content, p) == Len(content) > 0 /\ content[Len(content)] = p
Contains(content, tag) == \E i \in 1..Len(content) : content[i] = tag

\* Integer division and remainder of Go, which truncate towards zero
GoDiv(a, b) == IF a >= 0 THEN a \div b ELSE -((-a) \div b)
GoMod(a, b) == a - b * GoDiv(a, b)

\* totalSeconds += session.TotalSeconds over the counted files
RECURSIVE SumTotalSeconds(_, _)
SumTotalSeconds(S, files) ==
    IF S = {} THEN 0
    ELSE LET x == CHOOSE y \in S : TRUE
         IN files[x].total_seconds + SumTotalSeconds(S \ {x}, files)

\* The name of a session file: sessionID+".json"
SessionFileName(sid) == <<sid, ".json">>

\* A file that exists and cannot be read (a directory, no permission)
UnreadableFile == [kind |-> "unreadable"]

\* A loop that counts the sessions of every day
HoursCountedAnyDate(entries, files, today) ==
    {n \in entries : HasSuffix(n, ".json") /\ files[n].kind = "json"}

\* The entries the loop of calculateTotalHours counts: the name ends in
\* ".json", os.ReadFile and json.Unmarshal succeed, session.Date == today
HoursCounted(entries, files, today) ==
    {n \in entries : HasSuffix(n, ".json") /\ files[n].kind = "json" /\ files[n].date = today}

\* totalSeconds and activeSessions after the loop
HoursTally(entries, files, currentTime) ==
    LET counted == HoursCounted(entries, files, DateOf(currentTime))
    IN [ totalSeconds |-> SumTotalSeconds(counted, files),
         activeSessions |-> Cardinality({n \in counted :
                              currentTime - files[n].last_heartbeat < SessionTimeoutSeconds}) ]

\* "Format output"
FormatHours(totalSeconds, activeSessions) ==
    LET hours == GoDiv(totalSeconds, 3600)
        minutes == GoDiv(GoMod(totalSeconds, 3600), 60)
        timeStr == IF hours > 0
                     THEN IF minutes > 0
                            THEN ToString(hours) \o "h" \o ToString(minutes) \o "m"
                            ELSE ToString(hours) \o "h"
                     ELSE ToString(minutes) \o "m"
    IN IF activeSessions > 1
         THEN timeStr \o " [" \o ToString(activeSessions) \o " sessions]"
         ELSE timeStr

\* return "0m": os.UserHomeDir or os.ReadDir failed
ZeroMinutes == "0m"

\* calculateTotalHours over the directory entries it listed and the files as
\* they are when it reads them: the sessions dated today, their total and
\* how many had a heartbeat within the timeout, formatted
calculateTotalHours(entries, files, currentTime) ==
    LET tally == HoursTally(entries, files, currentTime)
    IN FormatHours(tally.totalSeconds, tally.activeSessions)

\* What the fetchers other than the aggregate query may return: the branch
\* (none outside a repository), the context gauge, the last user message
\* (none when no record qualifies)
FetchData(f) ==
    CASE f = "git" -> {"", "main"}
      [] f = "context" -> {"gauge"}
      [] f = "message" -> {"", "msg"}

\* The Printf calls of main, in order
Output ==
    LET message == got["message"].v
        msgSeg == IF message # "" THEN <<[seg |-> "message", text |-> message]>> ELSE << >>
    IN IF variant = "writeThrough"
         THEN <<[seg |-> "status", branch |-> got["git"].v,
                 context |-> got["context"].v,
                 hours |-> got["hours"].v]>> \o msgSeg
         ELSE msgSeg \o
              <<[seg |-> "first", branch |-> got["git"].v],
                [seg |-> "second", context |-> got["context"].v,
                 hours |-> got["hours"].v]>>

\* A process starts: the snapshot decodes, main adds 4 to the WaitGroup and
\* starts the four fetchers and the goroutine that closes the channel
StartRender ==
    /\ mainPc = "idle"
    /\ renders < MaxRenders
    /\ \E sid \in SessionIds, d \in RenderClockSteps :
          /\ input' = [ok |-> TRUE, SessionID |-> sid]
          /\ now' = now + d
    /\ fpc' = [f \in Fetchers |-> "run"]
    /\ floc' = NoLocals
    /\ cpc' = "wait"
    /\ wg' = 4
    /\ results' = << >>
    /\ closed' = FALSE
    /\ got' = NothingCollected
    /\ out' = << >>
    /\ errs' = << >>
    /\ exitCode' = "none"
    /\ mainPc' = "collect"
    /\ renders' = renders + 1
    /\ lastCall' = NoCall
    /\ UNCHANGED <<fnVars, variant, disk, sessionCache, beats, hist, faults, readerVars>>

\* A decode failure that prints the diagnostic and returns from main, so that
\* the process ends with status 0
DecodeFailsExitsZero ==
    /\ mainPc = "idle"
    /\ renders < MaxRenders
    /\ input' = [ok |-> FALSE]
    /\ out' = << >>
    /\ errs' = <<"Failed to decode input">>
    /\ exitCode' = "0"
    /\ mainPc' = "exited"
    /\ renders' = renders + 1
    /\ lastCall' = NoCall
    /\ UNCHANGED <<fnVars, variant, now, disk, sessionCache, beats, hist, faults, readerVars,
                   fpc, floc, cpc, results, closed, wg, got>>

\* A process starts and the snapshot does not decode: diagnostic, os.Exit(1)
DecodeFails ==
    /\ mainPc = "idle"
    /\ renders < MaxRenders
    /\ input' = [ok |-> FALSE]
    /\ out' = << >>
    /\ errs' = <<"Failed to decode input">>
    /\ exitCode' = "1"
    /\ mainPc' = "exited"
    /\ renders' = renders + 1
    /\ lastCall' = NoCall
    /\ UNCHANGED <<fnVars, variant, now, disk, sessionCache, beats, hist, faults, readerVars,
                   fpc, floc, cpc, results, closed, wg, got>>

\* getGitBranch, analyzeContext or extractUserMessage returns in its goroutine
FetcherWork(f) ==
    /\ f # "hours"
    /\ fpc[f] = "run"
    /\ \E data \in FetchData(f) : floc' = [floc EXCEPT ![f].data = data]
    /\ fpc' = [fpc EXCEPT ![f] = "send"]
    /\ UNCHANGED <<fnVars, trackerVars, readerVars, input, cpc, results, closed, wg, mainPc,
                   got, out, errs, exitCode, renders>>

\* calculateTotalHours lists the session directory
HoursReadDir ==
    /\ fpc["hours"] = "run"
    /\ floc' = [floc EXCEPT !["hours"].entries =
                    {SessionFileName(sid) : sid \in {x \in SessionIds : disk[x].kind # "missing"}}]
    /\ fpc' = [fpc EXCEPT !["hours"] = "files"]
    /\ UNCHANGED <<fnVars, trackerVars, readerVars, input, cpc, results, closed, wg, mainPc,
                   got, out, errs, exitCode, renders>>

\* calculateTotalHours reads the listed files and returns
HoursReadFiles ==
    /\ fpc["hours"] = "files"
    /\ floc' = [floc EXCEPT !["hours"].data =
                    calculateTotalHours(floc["hours"].entries,
                                        [n \in floc["hours"].entries |-> disk[n[1]]], now)]
    /\ fpc' = [fpc EXCEPT !["hours"] = "send"]
    /\ UNCHANGED <<fnVars, trackerVars, readerVars, input, cpc, results, closed, wg, mainPc,
                   got, out, errs, exitCode, renders>>

\* results <- Result{type, value}: blocks while the buffer is full, panics on
\* a closed channel
FetcherSend(f) ==
    /\ fpc[f] = "send"
    /\ closed \/ Len(results) < ResultsCap
    /\ IF closed
         THEN /\ fpc' = [fpc EXCEPT ![f] = "panic"]
              /\ results' = results
         ELSE /\ fpc' = [fpc EXCEPT ![f] = "sent"]
              /\ results' = Append(results, [Type |-> f, Data |-> floc[f].data])
    /\ UNCHANGED <<fnVars, trackerVars, readerVars, input, floc, cpc, closed, wg, mainPc,
                   got, out, errs, exitCode, renders>>

\* The aggregate query's goroutine returns without wg.Done()
FetcherDoneUncounted(f) ==
    /\ fpc[f] = "sent"
    /\ fpc' = [fpc EXCEPT ![f] = "done"]
    /\ wg' = IF f = "hours" THEN wg ELSE wg - 1
    /\ UNCHANGED <<fnVars, trackerVars, readerVars, input, floc, cpc, results, closed, mainPc,
                   got, out, errs, exitCode, renders>>

\* defer wg.Done()
FetcherDone(f) ==
    /\ fpc[f] = "sent"
    /\ fpc' = [fpc EXCEPT ![f] = "done"]
    /\ wg' = wg - 1
    /\ UNCHANGED <<fnVars, trackerVars, readerVars, input, floc, cpc, results, closed, mainPc,
                   got, out, errs, exitCode, renders>>

\* A close that does not wait for the WaitGroup
CloserCloseNoWait ==
    /\ cpc = "wait"
    /\ closed' = TRUE
    /\ cpc' = "done"
    /\ UNCHANGED <<fnVars, trackerVars, readerVars, input, fpc, floc, results, wg, mainPc,
                   got, out, errs, exitCode, renders>>

\* wg.Wait() returns; close(results)
CloserClose ==
    /\ cpc = "wait"
    /\ wg = 0
    /\ closed' = TRUE
    /\ cpc' = "done"
    /\ UNCHANGED <<fnVars, trackerVars, readerVars, input, fpc, floc, results, wg, mainPc,
                   got, out, errs, exitCode, renders>>

\* for result := range results: one Result is received
MainReceive ==
    /\ mainPc = "collect"
    /\ results # << >>
    /\ got' = [got EXCEPT ![Head(results).Type] = [n |-> @.n + 1, v |-> Head(results).Data]]
    /\ results' = Tail(results)
    /\ UNCHANGED <<fnVars, trackerVars, readerVars, input, fpc, floc, cpc, closed, wg, mainPc,
                   out, errs, exitCode, renders>>

\* A collection loop that stops as soon as the channel is empty, closed or not
MainLoopExitOnEmpty ==
    /\ mainPc = "collect"
    /\ results = << >>
    /\ mainPc' = "update"
    /\ UNCHANGED <<fnVars, trackerVars, readerVars, input, fpc, floc, cpc, results, closed, wg,
                   got, out, errs, exitCode, renders>>

\* the range loop ends: the channel is closed and drained
MainLoopExit ==
    /\ mainPc = "collect"
    /\ results = << >>
    /\ closed
    /\ mainPc' = "update"
    /\ UNCHANGED <<fnVars, trackerVars, readerVars, input, fpc, floc, cpc, results, closed, wg,
                   got, out, errs, exitCode, renders>>

\* An updateSession that ends the process with status 1 when the session
\* file cannot be written
MainUpdateSessionAborts ==
    /\ mainPc = "update"
    /\ \E outcome \in WriteOutcomes : ApplyUpdateSession(input.SessionID, now, outcome)
    /\ errs' = IF lastCall'.wrote /\ lastCall'.outcome # "ok"
                 THEN Append(errs, "Warning: Failed to save session")
                 ELSE errs
    /\ mainPc' = IF lastCall'.wrote /\ lastCall'.outcome # "ok" THEN "exited" ELSE "print"
    /\ exitCode' = IF lastCall'.wrote /\ lastCall'.outcome # "ok" THEN "1" ELSE exitCode
    /\ UNCHANGED <<fnVars, readerVars, input, fpc, floc, cpc, results, closed, wg,
                   got, out, renders>>

\* updateSession(input.SessionID), run by main
MainUpdateSession ==
    /\ mainPc = "update"
    /\ \E outcome \in WriteOutcomes : ApplyUpdateSession(input.SessionID, now, outcome)
    /\ errs' = IF lastCall'.wrote /\ lastCall'.outcome # "ok"
                 THEN Append(errs, "Warning: Failed to save session")
                 ELSE errs
    /\ mainPc' = "print"
    /\ UNCHANGED <<fnVars, readerVars, input, fpc, floc, cpc, results, closed, wg,
                   got, out, exitCode, renders>>

\* updateSession(input.SessionID) returns at once: no session directory
MainUpdateSessionNoDir ==
    /\ mainPc = "update"
    /\ ApplyUpdateSessionNoDir(input.SessionID)
    /\ mainPc' = "print"
    /\ UNCHANGED <<fnVars, readerVars, input, fpc, floc, cpc, results, closed, wg,
                   got, out, errs, exitCode, renders>>

\* A main that computes the aggregate time again when it prints, from the
\* session files as its own updateSession left them
MainPrintRecomputes ==
    /\ mainPc = "print"
    /\ out' = [i \in DOMAIN Output |->
                 IF Output[i].seg \in {"status", "second"}
                   THEN [Output[i] EXCEPT !.hours =
                           calculateTotalHours(
                               {SessionFileName(sid) : sid \in {x \in SessionIds : disk[x].kind # "missing"}},
                               [n \in {SessionFileName(sid) : sid \in SessionIds} |-> disk[n[1]]],
                               now)]
                   ELSE Output[i]]
    /\ exitCode' = "0"
    /\ mainPc' = "exited"
    /\ UNCHANGED <<fnVars, trackerVars, readerVars, input, fpc, floc, cpc, results, closed, wg,
                   got, errs, renders>>

\* main prints the status text and returns
MainPrint ==
    /\ mainPc = "print"
    /\ out' = Output
    /\ exitCode' = "0"
    /\ mainPc' = "exited"
    /\ UNCHANGED <<fnVars, trackerVars, readerVars, input, fpc, floc, cpc, results, closed, wg,
                   got, errs, renders>>

\* The process is gone, and its write-cache with it
ProcessEnd ==
    /\ mainPc = "exited"
    /\ mainPc' = "idle"
    /\ sessionCache' = EmptyCache
    /\ fpc' = NoGoroutines
    /\ cpc' = "idle"
    /\ UNCHANGED <<fnVars, variant, now, disk, lastCall, beats, hist, faults, readerVars,
                   input, floc, results, closed, wg, got, out, errs, exitCode, renders>>

NextRender ==
    \/ StartRender
    \/ DecodeFails
    \/ \E f \in Fetchers : FetcherWork(f)
    \/ HoursReadDir
    \/ HoursReadFiles
    \/ \E f \in Fetchers : FetcherSend(f)
    \/ \E f \in Fetchers : FetcherDone(f)
    \/ CloserClose
    \/ MainReceive
    \/ MainLoopExit
    \/ MainUpdateSession
    \/ MainUpdateSessionNoDir
    \/ MainPrint
    \/ ProcessEnd
    \/ \E sid \in SessionIds : CorruptSessionFile(sid)

SpecRender == InitTracker /\ [][NextRender]_vars

\* A step of the goroutines of the running process other than the return of
\* the external git command
GoroutineStep ==
    \/ \E f \in Fetchers \ {"git"} : FetcherWork(f)
    \/ HoursReadDir
    \/ HoursReadFiles
    \/ \E f \in Fetchers : FetcherSend(f)
    \/ \E f \in Fetchers : FetcherDone(f)
    \/ CloserClose
    \/ MainReceive
    \/ MainLoopExit
    \/ MainUpdateSession
    \/ MainUpdateSessionNoDir
    \/ MainPrint

\* Where the goroutines of the process are: every step of a goroutine
\* changes it
position == <<mainPc, fpc, cpc, wg, closed, Len(results)>>

\* exec.Command("git", ...).Output() returns, with a branch or with an error
BranchQueryReturns == FetcherWork("git")

\* The session stores a render may find: no file, a file that does not
\* parse, the file an earlier render wrote
SessionStores ==
    { EmptyStore,
      [sid \in SessionIds |-> CorruptFile],
      [sid \in SessionIds |->
          Marshal(Heartbeat(createNewSession(sid, DateOf(StartTime), StartTime), StartTime))] }

\* The last render of a behaviour, over any of these stores, under either
\* build
InitLastRender ==
    /\ variant \in Variants
    /\ now = StartTime
    /\ disk \in SessionStores
    /\ sessionCache = EmptyCache
    /\ lastCall = NoCall
    /\ beats = NoBeats
    /\ hist = NoHistory
    /\ faults = 0
    /\ host = NoHost
    /\ procs = NoProcs
    /\ rd = NoReaderCall
    /\ input = [ok |-> FALSE]
    /\ fpc = NoGoroutines
    /\ floc = NoLocals
    /\ cpc = "idle"
    /\ results = << >>
    /\ closed = FALSE
    /\ wg = 0
    /\ mainPc = "idle"
    /\ got = NothingCollected
    /\ out = << >>
    /\ errs = << >>
    /\ exitCode = "none"
    /\ renders = MaxRenders - 1
    /\ gitBranchCache = ""
    /\ gitBranchExpires = ZeroTime
    /\ cacheMutex = Unlocked
    /\ gpc = NoGitCallers
    /\ gloc = NoGitCalls
    /\ gitHist = NoGitHistory
    /\ tx = NoTranscript
    /\ hq = NoDirectory

\* A render under the Go scheduler, which runs every goroutine that can take
\* a step, when every fetcher returns (the git command included)
SpecRenderFair ==
    InitLastRender /\ [][NextRender]_vars
        /\ WF_position(GoroutineStep \/ BranchQueryReturns)

\* The same when nothing makes the git command return: Output() waits for
\* the child process for as long as it runs
SpecRenderQueryMayHang ==
    InitLastRender /\ [][NextRender]_vars /\ WF_position(GoroutineStep)

\* A session one second short of its second minute: started 119 seconds
\* before StartTime, its latest heartbeat at StartTime
SessionNearMinute(sid) ==
    Heartbeat(Heartbeat(createNewSession(sid, DateOf(StartTime), StartTime - (2 * 60 - 1)),
                        StartTime - (2 * 60 - 1)),
              StartTime)

\* The session stores in which the heartbeat of a render shows in the
\* aggregate: no file yet (the render creates it), and a file whose total
\* the next heartbeat carries over a minute
HoursStores ==
    { EmptyStore,
      [sid \in SessionIds |-> Marshal(SessionNearMinute(sid))] }

\* The last render of a behaviour over one of these stores, under either
\* build
InitRenderHours ==
    /\ variant \in Variants
    /\ now = StartTime
    /\ disk \in HoursStores
    /\ sessionCache = EmptyCache
    /\ lastCall = NoCall
    /\ beats = NoBeats
    /\ hist = NoHistory
    /\ faults = 0
    /\ host = NoHost
    /\ procs = NoProcs
    /\ rd = NoReaderCall
    /\ input = [ok |-> FALSE]
    /\ fpc = NoGoroutines
    /\ floc = NoLocals
    /\ cpc = "idle"
    /\ results = << >>
    /\ closed = FALSE
    /\ wg = 0
    /\ mainPc = "idle"
    /\ got = NothingCollected
    /\ out = << >>
    /\ errs = << >>
    /\ exitCode = "none"
    /\ renders = MaxRenders - 1
    /\ gitBranchCache = ""
    /\ gitBranchExpires = ZeroTime
    /\ cacheMutex = Unlocked
    /\ gpc = NoGitCallers
    /\ gloc = NoGitCalls
    /\ gitHist = NoGitHistory
    /\ tx = NoTranscript
    /\ hq = NoDirectory

SpecRenderHours == InitRenderHours /\ [][NextRender]_vars

----------------------------------------------------------------------------
(* getGitBranch and its cache, called by several goroutines at once *)

\* calls of getGitBranch explored per behaviour
MaxGitCalls == 3
\* clock ticks explored per behaviour
MaxGitTicks == 1

GitBranchCacheSeconds == 5

\* Seconds by which the clock advances at a tick: within the time-to-live,
\* and the time-to-live itself
GitClockSteps == {1, GitBranchCacheSeconds}

\* What `git branch --show-current` prints, trimmed: a branch, or nothing (a
\* detached HEAD)
Branches == {"main", "dev"}
\* How the external command ends: it fails (not a repository, no git), or it
\* prints a branch or nothing
CommandOutcomes == {[err |-> TRUE, out |-> ""]} \cup {[err |-> FALSE, out |-> b] : b \in Branches \cup {""}}

\* A comparison the wrong way round: time.Now().After(gitBranchExpires)
BeforeReversed(t, u) == u < t

\* time.Now().Before(gitBranchExpires)
Before(t, u) == t < u

\* What stays of a call once it has returned: what it found at its check,
\* how its command ended, whether it wrote the cache, and what it returned
GitReturned(l, ret) ==
    [NoGitLocals EXCEPT !.fresh = l.fresh, !.cached = l.cached, !.cmd = l.cmd,
                        !.wrote = l.wrote, !.ret = ret]

\* The clock advances
GitTick ==
    /\ gitHist.ticks < MaxGitTicks
    /\ \E d \in GitClockSteps : now' = now + d
    /\ gitHist' = [gitHist EXCEPT !.ticks = @ + 1]
    /\ UNCHANGED <<variant, disk, sessionCache, lastCall, beats, hist, faults,
                   readerVars, renderVars, concVars, gitBranchCache, gitBranchExpires,
                   cacheMutex, gpc, gloc, tx, hq>>

\* A caller enters getGitBranch: cacheMutex.RLock(), granted while no writer
\* holds the lock
GitRLock(c) ==
    /\ gpc[c] = "idle"
    /\ gitHist.calls < MaxGitCalls
    /\ cacheMutex.writers = {}
    /\ cacheMutex' = [cacheMutex EXCEPT !.readers = @ \cup {c}]
    /\ gpc' = [gpc EXCEPT ![c] = "checkExpires"]
    /\ gloc' = [gloc EXCEPT ![c] = [NoGitLocals EXCEPT !.id = gitHist.calls + 1]]
    /\ gitHist' = [gitHist EXCEPT !.calls = @ + 1]
    /\ UNCHANGED <<trackerVars, readerVars, renderVars, concVars, gitBranchCache,
                   gitBranchExpires, tx, hq>>

\* time.Now().Before(gitBranchExpires): the clock is read and the expiry is
\* read; when the cache has expired the branch is not looked at
GitCheckExpires(c) ==
    /\ gpc[c] = "checkExpires"
    /\ gloc' = [gloc EXCEPT ![c].fresh = (now < gitBranchExpires /\ gitBranchCache # ""),
                            ![c].cached = gitBranchCache,
                            ![c].seenExpBy = gitHist.expBy]
    /\ gpc' = [gpc EXCEPT ![c] = IF Before(now, gitBranchExpires)
                                    THEN "checkCache" ELSE "runlockMiss"]
    /\ UNCHANGED <<trackerVars, readerVars, renderVars, concVars, gitBranchCache,
                   gitBranchExpires, cacheMutex, gitHist, tx, hq>>

\* && gitBranchCache != "", and result := gitBranchCache
GitCheckCache(c) ==
    /\ gpc[c] = "checkCache"
    /\ gloc' = [gloc EXCEPT ![c].seenCacheBy = gitHist.cacheBy,
                            ![c].result = gitBranchCache]
    /\ gpc' = [gpc EXCEPT ![c] = IF gitBranchCache # "" THEN "runlockHit" ELSE "runlockMiss"]
    /\ UNCHANGED <<trackerVars, readerVars, renderVars, concVars, gitBranchCache,
                   gitBranchExpires, cacheMutex, gitHist, tx, hq>>

\* cacheMutex.RUnlock() and return result
GitReturnCached(c) ==
    /\ gpc[c] = "runlockHit"
    /\ cacheMutex' = [cacheMutex EXCEPT !.readers = @ \ {c}]
    /\ gloc' = [gloc EXCEPT ![c] = GitReturned(gloc[c], gloc[c].result)]
    /\ gpc' = [gpc EXCEPT ![c] = "returned"]
    /\ UNCHANGED <<trackerVars, readerVars, renderVars, concVars, gitBranchCache,
                   gitBranchExpires, gitHist, tx, hq>>

\* cacheMutex.RUnlock() on a miss
GitRUnlock(c) ==
    /\ gpc[c] = "runlockMiss"
    /\ cacheMutex' = [cacheMutex EXCEPT !.readers = @ \ {c}]
    /\ gloc' = [gloc EXCEPT ![c].seenExpBy = -1, ![c].seenCacheBy = -1, ![c].result = ""]
    /\ gpc' = [gpc EXCEPT ![c] = "exec"]
    /\ UNCHANGED <<trackerVars, readerVars, renderVars, concVars, gitBranchCache,
                   gitBranchExpires, gitHist, tx, hq>>

\* The external command that goes on to the cache update with whatever it
\* printed, an empty branch included
GitExecCachesEmpty(c) ==
    /\ gpc[c] = "exec"
    /\ \E o \in CommandOutcomes :
          LET cmd == IF o.err THEN "fail" ELSE IF o.out = "" THEN "empty" ELSE "ok"
              l == [gloc[c] EXCEPT !.cmd = cmd, !.branch = o.out]
          IN /\ gloc' = [gloc EXCEPT ![c] = IF o.err THEN GitReturned(l, "") ELSE l]
             /\ gpc' = [gpc EXCEPT ![c] = IF o.err THEN "returned" ELSE "lock"]
    /\ UNCHANGED <<trackerVars, readerVars, renderVars, concVars, gitBranchCache,
                   gitBranchExpires, cacheMutex, gitHist, tx, hq>>

\* exec.Command("git", "branch", "--show-current").Output(): on an error or an
\* empty branch getGitBranch returns ""
GitExec(c) ==
    /\ gpc[c] = "exec"
    /\ \E o \in CommandOutcomes :
          LET cmd == IF o.err THEN "fail" ELSE IF o.out = "" THEN "empty" ELSE "ok"
              l == [gloc[c] EXCEPT !.cmd = cmd, !.branch = o.out]
          IN /\ gloc' = [gloc EXCEPT ![c] = IF cmd # "ok" THEN GitReturned(l, "") ELSE l]
             /\ gpc' = [gpc EXCEPT ![c] = IF cmd # "ok" THEN "returned" ELSE "lock"]
    /\ UNCHANGED <<trackerVars, readerVars, renderVars, concVars, gitBranchCache,
                   gitBranchExpires, cacheMutex, gitHist, tx, hq>>

\* A Lock that is granted while readers hold the lock
GitLockIgnoresReaders(c) ==
    /\ gpc[c] = "lock"
    /\ cacheMutex.writers = {}
    /\ cacheMutex' = [cacheMutex EXCEPT !.writers = @ \cup {c}]
    /\ gpc' = [gpc EXCEPT ![c] = "writeCache"]
    /\ UNCHANGED <<trackerVars, readerVars, renderVars, concVars, gitBranchCache,
                   gitBranchExpires, gloc, gitHist, tx, hq>>

\* cacheMutex.Lock(), granted while nobody holds the lock
GitLock(c) ==
    /\ gpc[c] = "lock"
    /\ cacheMutex.writers = {} /\ cacheMutex.readers = {}
    /\ cacheMutex' = [cacheMutex EXCEPT !.writers = @ \cup {c}]
    /\ gpc' = [gpc EXCEPT ![c] = "writeCache"]
    /\ UNCHANGED <<trackerVars, readerVars, renderVars, concVars, gitBranchCache,
                   gitBranchExpires, gloc, gitHist, tx, hq>>

\* gitBranchCache = branch
GitWriteCache(c) ==
    /\ gpc[c] = "writeCache"
    /\ gitBranchCache' = gloc[c].branch
    /\ gitHist' = [gitHist EXCEPT !.cacheBy = gloc[c].id]
    /\ gloc' = [gloc EXCEPT ![c].wrote = TRUE]
    /\ gpc' = [gpc EXCEPT ![c] = "writeExpires"]
    /\ UNCHANGED <<trackerVars, readerVars, renderVars, concVars, gitBranchExpires,
                   cacheMutex, tx, hq>>

\* gitBranchExpires = time.Now().Add(GitBranchCacheSeconds * time.Second)
GitWriteExpires(c) ==
    /\ gpc[c] = "writeExpires"
    /\ gitBranchExpires' = now + GitBranchCacheSeconds
    /\ gitHist' = [gitHist EXCEPT !.expBy = gloc[c].id]
    /\ gpc' = [gpc EXCEPT ![c] = "unlock"]
    /\ UNCHANGED <<trackerVars, readerVars, renderVars, concVars, gitBranchCache,
                   cacheMutex, gloc, tx, hq>>

\* cacheMutex.Unlock() and return branch
GitUnlock(c) ==
    /\ gpc[c] = "unlock"
    /\ cacheMutex' = [cacheMutex EXCEPT !.writers = @ \ {c}]
    /\ gloc' = [gloc EXCEPT ![c] = GitReturned(gloc[c], gloc[c].branch)]
    /\ gpc' = [gpc EXCEPT ![c] = "returned"]
    /\ UNCHANGED <<trackerVars, readerVars, renderVars, concVars, gitBranchCache,
                   gitBranchExpires, gitHist, tx, hq>>

\* The caller has its result and may call again
GitCallAgain(c) ==
    /\ gpc[c] = "returned"
    /\ gitHist.calls < MaxGitCalls
    /\ gpc' = [gpc EXCEPT ![c] = "idle"]
    /\ gloc' = [gloc EXCEPT ![c] = NoGitLocals]
    /\ UNCHANGED <<trackerVars, readerVars, renderVars, concVars, gitBranchCache,
                   gitBranchExpires, cacheMutex, gitHist, tx, hq>>

\* A process that has made no call: the cache is empty and its expiry is
\* the zero time. The build of src/tools/statusline.go adds a check for a
\* repository before the command, one more way for the query to fail.
InitGit ==
    /\ variant = "debounced"
    /\ now = StartTime
    /\ disk = EmptyStore
    /\ sessionCache = EmptyCache
    /\ lastCall = NoCall
    /\ beats = NoBeats
    /\ hist = NoHistory
    /\ faults = 0
    /\ host = NoHost
    /\ procs = NoProcs
    /\ rd = NoReaderCall
    /\ input = [ok |-> FALSE]
    /\ fpc = NoGoroutines
    /\ floc = NoLocals
    /\ cpc = "idle"
    /\ results = << >>
    /\ closed = FALSE
    /\ wg = 0
    /\ mainPc = "idle"
    /\ got = NothingCollected
    /\ out = << >>
    /\ errs = << >>
    /\ exitCode = "none"
    /\ renders = 0
    /\ gitBranchCache = ""
    /\ gitBranchExpires = ZeroTime
    /\ cacheMutex = Unlocked
    /\ gpc = NoGitCallers
    /\ gloc = NoGitCalls
    /\ gitHist = NoGitHistory
    /\ tx = NoTranscript
    /\ hq = NoDirectory

NextGit ==
    \/ GitTick
    \/ \E c \in Callers : GitRLock(c)
    \/ \E c \in Callers : GitCheckExpires(c)
    \/ \E c \in Callers : GitCheckCache(c)
    \/ \E c \in Callers : GitReturnCached(c)
    \/ \E c \in Callers : GitRUnlock(c)
    \/ \E c \in Callers : GitExec(c)
    \/ \E c \in Callers : GitLock(c)
    \/ \E c \in Callers : GitWriteCache(c)
    \/ \E c \in Callers : GitWriteExpires(c)
    \/ \E c \in Callers : GitUnlock(c)
    \/ \E c \in Callers : GitCallAgain(c)

SpecGit == InitGit /\ [][NextGit]_vars

----------------------------------------------------------------------------
(* analyzeContext and extractUserMessage over one transcript *)

\* most lines of a transcript explored
MaxTxLen == 3
\* The windows. The source reads the last 100 lines for the context gauge
\* and the last 200 for the user message; the model reads this many, so that
\* the bounded transcripts have lines inside and outside the windows.
MaxTranscriptLines == 2
MaxUserSearchLines == 2

MaxContextTokens == 200000
ProgressBarWidth == 10

\* Values of a decoded JSON document (map[string]any): a field that is
\* absent, a bool, a string, a number (float64), an array, an object
JsAbsent == [t |-> "absent"]
JsBool(b) == [t |-> "bool", v |-> b]
JsString(s) == [t |-> "string", v |-> s]
JsNumber(n) == [t |-> "number", v |-> n]
JsArray == [t |-> "array"]
JsObject(fields) == [t |-> "object", v |-> fields]

\* The Go type assertions v.(bool), v.(string), v.(float64) with their zero
\* values, and v.(map[string]any)
AsBool(v) == IF v.t = "bool" THEN v.v ELSE FALSE
AsString(v) == IF v.t = "string" THEN v.v ELSE ""
AsFloat(v) == IF v.t = "number" THEN v.v ELSE 0
IsObject(v) == v.t = "object"

\* Lines of a transcript file: the empty line, a line that is not a JSON
\* object, and a record with the fields the two scans look at
BlankLine == [k |-> "blank"]
TextLine == [k |-> "text"]
Record(isSidechain, sessionId, type, message) ==
    [ k |-> "json", isSidechain |-> isSidechain, sessionId |-> sessionId,
      type |-> type, message |-> message ]
Message(role, content, usage) ==
    JsObject([role |-> JsString(role), content |-> content, usage |-> usage])
Usage(inputTokens, cacheRead, cacheCreation) ==
    JsObject([ input_tokens |-> inputTokens, cache_read_input_tokens |-> cacheRead,
               cache_creation_input_tokens |-> cacheCreation ])

\* A user record of a session with a string content; a string is the
\* sequence of its tokens
UserRecord(sid, content) ==
    Record(JsAbsent, JsString(sid), JsString("user"),
           Message("user", JsString(content), JsAbsent))
\* An assistant record of the main chain with a usage object
AssistantRecord(usage) ==
    Record(JsBool(FALSE), JsString("s1"), JsString("assistant"),
           Message("assistant", JsArray, usage))

TxLines ==
    { BlankLine,
      TextLine,
      UserRecord("s1", <<"hello">>),
      UserRecord("s1", <<"[", "x">>),
      UserRecord("s1", <<"[", "x", "]">>),
      UserRecord("s1", <<"x", "<bash-stdout>">>),
      UserRecord("s1", <<"Caveat:", "x">>),
      UserRecord("s2", <<"other">>),
      Record(JsAbsent, JsString("s1"), JsString("user"), Message("user", JsArray, JsAbsent)),
      Record(JsBool(TRUE), JsString("s1"), JsString("user"),
             Message("user", JsString(<<"side">>), Usage(JsNumber(9), JsAbsent, JsAbsent))),
      AssistantRecord(Usage(JsNumber(100), JsNumber(50), JsAbsent)),
      AssistantRecord(Usage(JsNumber(0), JsAbsent, JsAbsent)),
      AssistantRecord(Usage(JsNumber(1000), JsString("x"), JsNumber(500))) }

Transcripts == UNION {[1..n -> TxLines] : n \in 0..MaxTxLen}

\* The transcript path of the snapshot: none, one that cannot be opened, or
\* the path of the transcript file
TxPaths == {"", "missing", "transcript"}

\* readLastLines as the scans see it: the build of src/unnamed/part_001
\* returns the last maxLines lines that are not empty, the build of
\* src/tools/statusline.go the last maxLines lines
LastLinesOf(build, fileLines, maxLines) ==
    LET allLines == IF build = "debounced"
                      THEN SelectSeq(fileLines, LAMBDA l : l # BlankLine)
                      ELSE fileLines
        start == IF Len(allLines) - maxLines > 0 THEN Len(allLines) - maxLines ELSE 0
    IN SubSeq(allLines, start + 1, Len(allLines))

\* strings.TrimSpace(line) == "", or json.Unmarshal fails
Unparsed(line) == line.k # "json"

\* A side-chain test that finds no record to be one
IsSidechainNever(data) == FALSE

\* sidechain.(bool) && isSide
IsSidechain(data) == AsBool(data.isSidechain)

\* total over the three token fields of a usage object
UsageTotal(usage) ==
    AsFloat(usage.v.input_tokens) + AsFloat(usage.v.cache_read_input_tokens)
        + AsFloat(usage.v.cache_creation_input_tokens)

\* The loop of calculateContextUsage from lines[i] down to the first line
\* (i counts from 1)
RECURSIVE ContextScan(_, _)
ContextScan(lines, i) ==
    IF i < 1 THEN 0
    ELSE LET data == lines[i]
         IN IF Unparsed(data) THEN ContextScan(lines, i - 1)
            ELSE IF IsSidechain(data) THEN ContextScan(lines, i - 1)
            ELSE IF IsObject(data.message) /\ IsObject(data.message.v.usage)
                      /\ UsageTotal(data.message.v.usage) > 0
                   THEN UsageTotal(data.message.v.usage)
                   ELSE ContextScan(lines, i - 1)

calculateContextUsage(build, transcriptPath, fileLines) ==
    IF transcriptPath # "transcript" THEN 0
    ELSE LET lines == LastLinesOf(build, fileLines, MaxTranscriptLines)
         IN ContextScan(lines, Len(lines))

getContextColor(percentage) ==
    IF percentage < 60 THEN "ColorCtxGreen"
    ELSE IF percentage < 80 THEN "ColorCtxGold"
    ELSE "ColorCtxRed"

\* the filled and the empty cells of the bar
generateProgressBar(percentage) ==
    LET filled == Min(GoDiv(percentage * ProgressBarWidth, 100), ProgressBarWidth)
    IN [filled |-> filled, empty |-> ProgressBarWidth - filled, color |-> getContextColor(percentage)]

formatNumber(num) ==
    IF num = 0 THEN <<"--">>
    ELSE IF num >= 1000000 THEN <<GoDiv(num, 1000000), "M">>
    ELSE IF num >= 1000 THEN <<GoDiv(num, 1000), "k">>
    ELSE <<num>>

\* int(float64(contextLength) * 100.0 / float64(MaxContextTokens)): the
\* conversion to int truncates; the quotient of the two floats is exact
\* enough for the truncation to be that of the exact quotient
Percentage(contextLength) ==
    LET percentage == GoDiv(contextLength * 100, MaxContextTokens)
    IN IF percentage > 100 THEN 100 ELSE percentage

analyzeContext(build, transcriptPath, fileLines) ==
    LET contextLength == IF transcriptPath = "" THEN 0
                         ELSE calculateContextUsage(build, transcriptPath, fileLines)
        percentage == Percentage(contextLength)
    IN [ contextLength |-> contextLength,
         percentage |-> percentage,
         progressBar |-> generateProgressBar(percentage),
         formattedNum |-> formatNumber(contextLength),
         color |-> getContextColor(percentage) ]

xmlTags(build) ==
    {"<local-command-stdout>", "<bash-stdout>", "<bash-stderr>", "<bash-input>"}
        \cup (IF build = "writeThrough"
                THEN {"<command-name>", "<command-message>", "<command-args>"}
                ELSE {})

isSystemMessage(build, content) ==
    \/ HasPrefix(content, "[") /\ HasSuffix(content, "]")
    \/ HasPrefix(content, "{") /\ HasSuffix(content, "}")
    \/ \E tag \in xmlTags(build) : Contains(content, tag)
    \/ HasPrefix(content, "Caveat:")

\* formatUserMessage for a message of one short line without a command tag:
\* the prompt mark before the line and a newline after it; nothing for the
\* empty message
formatUserMessage(message) ==
    IF message = << >> THEN << >> ELSE <<"> ">> \o message \o <<"\n">>

\* The loop of extractUserMessage from lines[i] down to the first line
RECURSIVE UserScan(_, _, _, _)
UserScan(build, lines, i, sessionID) ==
    IF i < 1 THEN << >>
    ELSE LET data == lines[i]
         IN IF Unparsed(data) THEN UserScan(build, lines, i - 1, sessionID)
            ELSE LET isSidechain == AsBool(data.isSidechain)
                     sessionMatch == data.sessionId.t = "string" /\ data.sessionId.v = sessionID
                 IN IF ~isSidechain /\ sessionMatch /\ IsObject(data.message)
                         /\ AsString(data.message.v.role) = "user"
                         /\ AsString(data.type) = "user"
                         /\ data.message.v.content.t = "string"
                         /\ ~isSystemMessage(build, data.message.v.content.v)
                      THEN formatUserMessage(data.message.v.content.v)
                      ELSE UserScan(build, lines, i - 1, sessionID)

extractUserMessage(build, transcriptPath, fileLines, sessionID) ==
    IF transcriptPath # "transcript" THEN << >>
    ELSE LET lines == LastLinesOf(build, fileLines, MaxUserSearchLines)
         IN UserScan(build, lines, Len(lines), sessionID)

\* The context fetcher of a render: analyzeContext(input.TranscriptPath)
TxAnalyzeContext ==
    /\ tx.pc = "ready"
    /\ ~tx.ctxDone
    /\ tx' = [tx EXCEPT !.ctxDone = TRUE,
                        !.ctx = analyzeContext(variant, tx.path, tx.lines)]
    /\ UNCHANGED <<trackerVars, readerVars, renderVars, concVars, gitVars, hq>>

\* The message fetcher of a render:
\* extractUserMessage(input.TranscriptPath, input.SessionID)
TxExtractUserMessage ==
    /\ tx.pc = "ready"
    /\ ~tx.msgDone
    /\ tx' = [tx EXCEPT !.msgDone = TRUE,
                        !.msg = extractUserMessage(variant, tx.path, tx.lines, tx.sid)]
    /\ UNCHANGED <<trackerVars, readerVars, renderVars, concVars, gitVars, hq>>

\* One render of either build over any transcript of the bounds, or with no
\* transcript path, or with a path that cannot be opened
InitTranscript ==
    /\ variant \in Variants
    /\ \E path \in TxPaths, lines \in Transcripts :
          /\ path # "transcript" => lines = << >>
          /\ tx = [ pc |-> "ready", path |-> path, lines |-> lines, sid |-> "s1",
                    ctxDone |-> FALSE, ctx |-> << >>, msgDone |-> FALSE, msg |-> << >> ]
    /\ now = StartTime
    /\ disk = EmptyStore
    /\ sessionCache = EmptyCache
    /\ lastCall = NoCall
    /\ beats = NoBeats
    /\ hist = NoHistory
    /\ faults = 0
    /\ host = NoHost
    /\ procs = NoProcs
    /\ rd = NoReaderCall
    /\ input = [ok |-> FALSE]
    /\ fpc = NoGoroutines
    /\ floc = NoLocals
    /\ cpc = "idle"
    /\ results = << >>
    /\ closed = FALSE
    /\ wg = 0
    /\ mainPc = "idle"
    /\ got = NothingCollected
    /\ out = << >>
    /\ errs = << >>
    /\ exitCode = "none"
    /\ renders = 0
    /\ gitBranchCache = ""
    /\ gitBranchExpires = ZeroTime
    /\ cacheMutex = Unlocked
    /\ gpc = NoGitCallers
    /\ gloc = NoGitCalls
    /\ gitHist = NoGitHistory
    /\ hq = NoDirectory

NextTranscript == TxAnalyzeContext \/ TxExtractUserMessage

SpecTranscript == InitTranscript /\ [][NextTranscript]_vars

----------------------------------------------------------------------------
(* calculateTotalHours over one session directory *)

\* most entries of the session directory explored
MaxDirEntries == 3

\* Names of directory entries: session files, and a file that is not one
DirNames == {SessionFileName("s1"), SessionFileName("s2"), SessionFileName("s3"),
             <<"notes", ".json", ".bak">>}

\* The clock reading of the query, one day after the start of the model
QueryTime == StartTime + SecondsPerDay

\* A session file as updateSession writes it, for a day, a total and a last
\* heartbeat
SessionFile(date, totalSeconds, lastHeartbeat) ==
    Marshal([ ID |-> "s", Date |-> date, Start |-> lastHeartbeat,
              LastHeartbeat |-> lastHeartbeat, TotalSeconds |-> totalSeconds,
              Intervals |-> << [Start |-> lastHeartbeat, End |-> Ptr(lastHeartbeat)] >> ])

\* What an entry may be: a session file of today or of yesterday, with a
\* heartbeat just inside or just outside the timeout, a file that does not
\* parse, a file that cannot be read
DirFiles ==
    {CorruptFile, UnreadableFile} \cup
    { SessionFile(d, s, h) :
        d \in {DateOf(QueryTime), DateOf(QueryTime) - 1},
        s \in {90, 3600},
        h \in {QueryTime - (SessionTimeoutSeconds - 1), QueryTime - SessionTimeoutSeconds} }

Directories ==
    UNION {[S -> DirFiles] : S \in {T \in SUBSET DirNames : Cardinality(T) <= MaxDirEntries}}

\* os.UserHomeDir and os.ReadDir: the entries, or "0m" when there is no
\* directory to list
HqReadDir ==
    /\ hq.pc = "ready"
    /\ hq' = IF hq.exists
               THEN [hq EXCEPT !.pc = "files", !.entries = DOMAIN hq.dir]
               ELSE [hq EXCEPT !.pc = "done", !.text = ZeroMinutes]
    /\ UNCHANGED <<trackerVars, readerVars, renderVars, concVars, gitVars, tx>>

\* The loop over the entries, and the formatted result
HqReadFiles ==
    /\ hq.pc = "files"
    /\ hq' = [hq EXCEPT !.pc = "done",
                        !.tally = HoursTally(hq.entries, hq.dir, now),
                        !.text = calculateTotalHours(hq.entries, hq.dir, now)]
    /\ UNCHANGED <<trackerVars, readerVars, renderVars, concVars, gitVars, tx>>

\* One query over any directory of the bounds, or with no directory
InitHours ==
    /\ variant \in Variants
    /\ now = QueryTime
    /\ \E exists \in BOOLEAN, dir \in Directories :
          /\ ~exists => dir = << >>
          /\ hq = [ pc |-> "ready", exists |-> exists, dir |-> dir, listed |-> dir,
                    entries |-> {}, tally |-> [totalSeconds |-> 0, activeSessions |-> 0],
                    text |-> "" ]
    /\ disk = EmptyStore
    /\ sessionCache = EmptyCache
    /\ lastCall = NoCall
    /\ beats = NoBeats
    /\ hist = NoHistory
    /\ faults = 0
    /\ host = NoHost
    /\ procs = NoProcs
    /\ rd = NoReaderCall
    /\ input = [ok |-> FALSE]
    /\ fpc = NoGoroutines
    /\ floc = NoLocals
    /\ cpc = "idle"
    /\ results = << >>
    /\ closed = FALSE
    /\ wg = 0
    /\ mainPc = "idle"
    /\ got = NothingCollected
    /\ out = << >>
    /\ errs = << >>
    /\ exitCode = "none"
    /\ renders = 0
    /\ gitBranchCache = ""
    /\ gitBranchExpires = ZeroTime
    /\ cacheMutex = Unlocked
    /\ gpc = NoGitCallers
    /\ gloc = NoGitCalls
    /\ gitHist = NoGitHistory
    /\ tx = NoTranscript

NextHours == HqReadDir \/ HqReadFiles

SpecHours == InitHours /\ [][NextHours]_vars

----------------------------------------------------------------------------
(* updateSession of src/unnamed/part_001 called by several goroutines of one
   long-lived process, for one session id *)

\* clock advances explored per behaviour
MaxHostTicks == 1

HostClockSteps == {1, sessionWriteDebounce}

HostSession == CHOOSE sid \in SessionIds : TRUE

\* The entries allocated (&sessionCacheEntry{...}): object 0 is the entry the
\* host created before the calls explored, object c the one call c creates
HostObjects == 0..MaxCallers

\* The locals of a call: currentTime and the entry pointer; and, for the
\* properties, the readings of time.Now() under the lock and how the write
\* ended
NoHostLocals ==
    [t |-> 0, entry |-> Nil, tLoad |-> 0, tWrite |-> 0, outcome |-> "ok"]

\* The host before the calls: sessionCache[sid] is cache (a pointer or nil),
\* the lock is free. file and entry keep the state the calls started from.
HostStart(file, entry) ==
    [ pc |-> [c \in Callers |-> "start"],
      loc |-> [c \in Callers |-> NoHostLocals],
      mutex |-> 0,
      cache |-> IF entry.present THEN Ptr(0) ELSE Nil,
      heap |-> [o \in HostObjects |-> IF o = 0 THEN entry ELSE NoEntry],
      order |-> << >>,
      ticks |-> 0,
      file |-> file,
      entry |-> entry ]

\* What earlier calls of the host left: nothing, a dirty entry and no file,
\* an entry and its file, or a file alone
HostFirstCall ==
    UpdateSessionDebounced(NoFile, NoEntry, HostSession,
                           StartTime - sessionWriteDebounce, "ok")
HostSecondCall ==
    UpdateSessionDebounced(HostFirstCall.file, HostFirstCall.entry, HostSession,
                           StartTime, "ok")
HostStarts ==
    { HostStart(NoFile, NoEntry),
      HostStart(HostFirstCall.file, HostFirstCall.entry),
      HostStart(HostSecondCall.file, HostSecondCall.entry),
      HostStart(HostSecondCall.file, NoEntry) }

\* The clock advances
HostTick ==
    /\ host.ticks < MaxHostTicks
    /\ \E d \in HostClockSteps : now' = now + d
    /\ host' = [host EXCEPT !.ticks = @ + 1]
    /\ UNCHANGED <<variant, disk, sessionCache, lastCall, beats, hist, faults,
                   readerVars, renderVars, gitVars, tx, hq, procs>>

\* currentTime := time.Now().Unix(), before the lock is asked for
HostReadClock(c) ==
    /\ host.pc[c] = "start"
    /\ host' = [host EXCEPT !.pc[c] = "lock", !.loc[c].t = now]
    /\ UNCHANGED <<trackerVars, readerVars, renderVars, gitVars, tx, hq, procs>>

\* A lock granted whoever holds it
HostLockNotExclusive(c) ==
    /\ host.pc[c] = "lock"
    /\ host' = [host EXCEPT !.pc[c] = "load", !.mutex = c, !.order = Append(@, c)]
    /\ UNCHANGED <<trackerVars, readerVars, renderVars, gitVars, tx, hq, procs>>

\* sessionCacheMutex.Lock(), granted while nobody holds the lock
HostLock(c) ==
    /\ host.pc[c] = "lock"
    /\ host.mutex = 0
    /\ host' = [host EXCEPT !.pc[c] = "load", !.mutex = c, !.order = Append(@, c)]
    /\ UNCHANGED <<trackerVars, readerVars, renderVars, gitVars, tx, hq, procs>>

\* entry, exists := sessionCache[sessionID]; when there is none the record
\* is read from the file or created, and a new entry is put in the cache
HostLoad(c) ==
    /\ host.pc[c] = "load"
    /\ host' =
          IF host.cache # Nil
            THEN [host EXCEPT !.pc[c] = "beat", !.loc[c].entry = host.cache,
                              !.loc[c].tLoad = now]
            ELSE [host EXCEPT !.pc[c] = "beat", !.loc[c].entry = Ptr(c),
                              !.loc[c].tLoad = now,
                              !.cache = Ptr(c),
                              !.heap[c] =
                                  CacheEntry(LoadSession(disk[HostSession], HostSession,
                                                         DateOf(host.loc[c].t), host.loc[c].t),
                                             now, FALSE)]
    /\ UNCHANGED <<trackerVars, readerVars, renderVars, gitVars, tx, hq, procs>>

\* The heartbeat on entry.session, and entry.dirty = true
HostHeartbeat(c) ==
    /\ host.pc[c] = "beat"
    /\ LET o == Deref(host.loc[c].entry)
           e == host.heap[o]
       IN host' = [host EXCEPT !.pc[c] = "write",
                               !.heap[o] = CacheEntry(Heartbeat(e.session, host.loc[c].t),
                                                      e.lastWrite, TRUE)]
    /\ UNCHANGED <<trackerVars, readerVars, renderVars, gitVars, tx, hq, procs>>

\* The debounce test, and when the window has passed the write, lastWrite
\* and dirty = false
HostWrite(c) ==
    /\ host.pc[c] = "write"
    /\ LET o == Deref(host.loc[c].entry)
           e == host.heap[o]
       IN IF DebounceElapsed(now, e.lastWrite)
            THEN \E outcome \in WriteOutcomes :
                   /\ disk' = [disk EXCEPT ![HostSession] =
                                  WriteFile(@, Marshal(e.session), outcome)]
                   /\ host' = [host EXCEPT !.pc[c] = "unlock",
                                           !.loc[c].tWrite = now,
                                           !.loc[c].outcome = outcome,
                                           !.heap[o] = CacheEntry(e.session, now, FALSE)]
            ELSE /\ disk' = disk
                 /\ host' = [host EXCEPT !.pc[c] = "unlock", !.loc[c].tWrite = now]
    /\ UNCHANGED <<variant, now, sessionCache, lastCall, beats, hist, faults,
                   readerVars, renderVars, gitVars, tx, hq, procs>>

\* defer sessionCacheMutex.Unlock()
HostUnlock(c) ==
    /\ host.pc[c] = "unlock"
    /\ host' = [host EXCEPT !.pc[c] = "done", !.mutex = 0]
    /\ UNCHANGED <<trackerVars, readerVars, renderVars, gitVars, tx, hq, procs>>

\* The goroutines are about to call updateSession, in a host in any of the
\* states earlier calls leave
InitHost ==
    /\ variant = "debounced"
    /\ now = StartTime
    /\ host \in HostStarts
    /\ disk = [sid \in SessionIds |-> host.file]
    /\ procs = NoProcs
    /\ sessionCache = EmptyCache
    /\ lastCall = NoCall
    /\ beats = NoBeats
    /\ hist = NoHistory
    /\ faults = 0
    /\ rd = NoReaderCall
    /\ input = [ok |-> FALSE]
    /\ fpc = NoGoroutines
    /\ floc = NoLocals
    /\ cpc = "idle"
    /\ results = << >>
    /\ closed = FALSE
    /\ wg = 0
    /\ mainPc = "idle"
    /\ got = NothingCollected
    /\ out = << >>
    /\ errs = << >>
    /\ exitCode = "none"
    /\ renders = 0
    /\ gitBranchCache = ""
    /\ gitBranchExpires = ZeroTime
    /\ cacheMutex = Unlocked
    /\ gpc = NoGitCallers
    /\ gloc = NoGitCalls
    /\ gitHist = NoGitHistory
    /\ tx = NoTranscript
    /\ hq = NoDirectory

NextHost ==
    \/ HostTick
    \/ \E c \in Callers : HostReadClock(c)
    \/ \E c \in Callers : HostLock(c)
    \/ \E c \in Callers : HostLoad(c)
    \/ \E c \in Callers : HostHeartbeat(c)
    \/ \E c \in Callers : HostWrite(c)
    \/ \E c \in Callers : HostUnlock(c)

SpecHost == InitHost /\ [][NextHost]_vars

----------------------------------------------------------------------------
(* updateSession of src/tools/statusline.go run by several processes side by
   side on the file of one session id *)

\* processes explored
MaxProcesses == 2
\* clock advances explored per behaviour
MaxProcTicks == 1

Processes == 1..MaxProcesses
ProcClockSteps == {1, SessionTimeoutSeconds}
ProcSession == CHOOSE sid \in SessionIds : TRUE

\* The locals of a process: currentTime, the file as os.ReadFile returned
\* it, the session record; failed is set when its os.WriteFile failed
NoProcLocals == [t |-> 0, data |-> NoFile, session |-> Nil, failed |-> FALSE]

\* file keeps the session file as it was before the processes started
ProcStart(file) ==
    [ pc |-> [p \in Processes |-> "start"],
      loc |-> [p \in Processes |-> NoProcLocals],
      ticks |-> 0,
      file |-> file ]

\* The file that three earlier renders left: two intervals, the first of 50
\* seconds
ProcEarlierFile ==
    LET first == UpdateSessionWriteThrough(NoFile, NoEntry, ProcSession,
                                           StartTime - 700, "ok")
        second == UpdateSessionWriteThrough(first.file, NoEntry, ProcSession,
                                            StartTime - 650, "ok")
        third == UpdateSessionWriteThrough(second.file, NoEntry, ProcSession,
                                           StartTime, "ok")
    IN third.file

ProcStarts == {ProcStart(NoFile), ProcStart(ProcEarlierFile)}

\* The clock advances
ProcTick ==
    /\ procs.ticks < MaxProcTicks
    /\ \E d \in ProcClockSteps : now' = now + d
    /\ procs' = [procs EXCEPT !.ticks = @ + 1]
    /\ UNCHANGED <<variant, disk, sessionCache, lastCall, beats, hist, faults,
                   readerVars, renderVars, gitVars, tx, hq, host>>

\* currentTime := time.Now().Unix()
ProcReadClock(p) ==
    /\ procs.pc[p] = "start"
    /\ procs' = [procs EXCEPT !.pc[p] = "read", !.loc[p].t = now]
    /\ UNCHANGED <<trackerVars, readerVars, renderVars, gitVars, tx, hq, host>>

\* os.ReadFile(sessionFile): the file as it is at this moment
ProcReadFile(p) ==
    /\ procs.pc[p] = "read"
    /\ procs' = [procs EXCEPT !.pc[p] = "compute", !.loc[p].data = disk[ProcSession]]
    /\ UNCHANGED <<trackerVars, readerVars, renderVars, gitVars, tx, hq, host>>

\* json.Unmarshal or createNewSession, then the heartbeat, in memory
ProcCompute(p) ==
    /\ procs.pc[p] = "compute"
    /\ LET l == procs.loc[p]
       IN procs' = [procs EXCEPT !.pc[p] = "open",
                                 !.loc[p].session =
                                     Heartbeat(LoadSession(l.data, ProcSession,
                                                           DateOf(l.t), l.t), l.t)]
    /\ UNCHANGED <<trackerVars, readerVars, renderVars, gitVars, tx, hq, host>>

\* os.WriteFile, first half: the file is opened with O_TRUNC and is empty
\* (it does not parse) until the data is written; or the open fails
ProcOpen(p) ==
    /\ procs.pc[p] = "open"
    /\ \/ /\ disk' = [disk EXCEPT ![ProcSession] = CorruptFile]
          /\ procs' = [procs EXCEPT !.pc[p] = "write"]
       \/ /\ disk' = [disk EXCEPT ![ProcSession] = WriteFile(@, Marshal(procs.loc[p].session),
                                                   "openFail")]
          /\ procs' = [procs EXCEPT !.pc[p] = "done", !.loc[p].failed = TRUE]
    /\ UNCHANGED <<variant, now, sessionCache, lastCall, beats, hist, faults,
                   readerVars, renderVars, gitVars, tx, hq, host>>

\* os.WriteFile, second half: the data is written and the file closed, or
\* the write fails part-way
ProcWrite(p) ==
    /\ procs.pc[p] = "write"
    /\ \E outcome \in {"ok", "shortWrite"} :
          /\ disk' = [disk EXCEPT ![ProcSession] =
                         WriteFile(@, Marshal(procs.loc[p].session), outcome)]
          /\ procs' = [procs EXCEPT !.pc[p] = "done",
                                    !.loc[p].failed = (outcome # "ok")]
    /\ UNCHANGED <<variant, now, sessionCache, lastCall, beats, hist, faults,
                   readerVars, renderVars, gitVars, tx, hq, host>>

\* The processes are about to call updateSession for the same session id
InitProcs ==
    /\ variant = "writeThrough"
    /\ now = StartTime
    /\ procs \in ProcStarts
    /\ disk = [sid \in SessionIds |-> procs.file]
    /\ host = NoHost
    /\ sessionCache = EmptyCache
    /\ lastCall = NoCall
    /\ beats = NoBeats
    /\ hist = NoHistory
    /\ faults = 0
    /\ rd = NoReaderCall
    /\ input = [ok |-> FALSE]
    /\ fpc = NoGoroutines
    /\ floc = NoLocals
    /\ cpc = "idle"
    /\ results = << >>
    /\ closed = FALSE
    /\ wg = 0
    /\ mainPc = "idle"
    /\ got = NothingCollected
    /\ out = << >>
    /\ errs = << >>
    /\ exitCode = "none"
    /\ renders = 0
    /\ gitBranchCache = ""
    /\ gitBranchExpires = ZeroTime
    /\ cacheMutex = Unlocked
    /\ gpc = NoGitCallers
    /\ gloc = NoGitCalls
    /\ gitHist = NoGitHistory
    /\ tx = NoTranscript
    /\ hq = NoDirectory

NextProcs ==
    \/ ProcTick
    \/ \E p \in Processes : ProcReadClock(p)
    \/ \E p \in Processes : ProcReadFile(p)
    \/ \E p \in Processes : ProcCompute(p)
    \/ \E p \in Processes : ProcOpen(p)
    \/ \E p \in Processes : ProcWrite(p)

SpecProcs == InitProcs /\ [][NextProcs]_vars

----------------------------------------------------------------------------
(* Properties of the session tracker, checked under SpecTracker *)

First(seq) == seq[1]
Last(seq) == seq[Len(seq)]

\* every gap between successive heartbeats is below the timeout
GapsBelowTimeout(ts) ==
    \A i \in 1..(Len(ts) - 1) : ts[i + 1] - ts[i] < SessionTimeoutSeconds

NonDecreasing(ts) == \A i \in 1..(Len(ts) - 1) : ts[i] <= ts[i + 1]

\* the sum of (end - start) over the intervals with an end, by position
RECURSIVE SumClosedFrom(_, _)
SumClosedFrom(ivs, i) ==
    IF i > Len(ivs)
      THEN 0
      ELSE (IF ivs[i].End = Nil THEN 0 ELSE ivs[i].End[1] - ivs[i].Start)
             + SumClosedFrom(ivs, i + 1)

\* The session records there are: the one the last call produced, the
\* write-cache's, and the one in the file
RecordsOf(sid) ==
    (IF lastCall.kind = "update" /\ lastCall.sid = sid THEN {lastCall.after} ELSE {})
      \cup (IF sessionCache[sid].present THEN {sessionCache[sid].session} ELSE {})
      \cup (IF disk[sid].kind = "json" THEN {Unmarshal(disk[sid])} ELSE {})

\* C1: debounced variant, k >= 2 single-shot invocations (every call finds an
\* empty write-cache) from an empty store, at non-decreasing times with all
\* gaps below the timeout and no fault: the file exists afterwards and its
\* total_seconds is t_k - t_1.
C1_SingleShotDurable ==
    \A sid \in SessionIds :
        ( /\ variant = "debounced"
          /\ Len(beats[sid]) >= 2
          /\ hist[sid].allFresh
          /\ faults = 0
    /\ host = NoHost
    /\ procs = NoProcs
          /\ NonDecreasing(beats[sid])
          /\ GapsBelowTimeout(beats[sid]) )
        => /\ disk[sid].kind = "json"
           /\ disk[sid].total_seconds = Last(beats[sid]) - First(beats[sid])

\* C2: heartbeats on one id from no record, the record carried between the
\* calls (no failed write or damaged file; debounced: one process), all gaps
\* below the timeout: after the k-th heartbeat the record has the single
\* interval {t_1, t_k} and total_seconds = t_k - t_1.
C2_ContiguousOneInterval ==
    \A sid \in SessionIds :
        ( /\ lastCall.kind = "update" /\ lastCall.sid = sid
          /\ hist[sid].clean
          /\ variant = "debounced" => hist[sid].oneProc
          /\ GapsBelowTimeout(beats[sid]) )
        => /\ lastCall.after.Intervals =
                 << [Start |-> First(beats[sid]), End |-> <<Last(beats[sid])>>] >>
           /\ lastCall.after.TotalSeconds = Last(beats[sid]) - First(beats[sid])

C2_Witness ==
    \E sid \in SessionIds :
        /\ lastCall.kind = "update" /\ lastCall.sid = sid
        /\ hist[sid].clean /\ hist[sid].oneProc
        /\ Len(beats[sid]) = 3
        /\ GapsBelowTimeout(beats[sid])
        /\ Last(beats[sid]) - First(beats[sid]) > SessionTimeoutSeconds
        /\ lastCall.after.TotalSeconds = Last(beats[sid]) - First(beats[sid])

\* The call loaded the record its predecessor produced
CarriedCall(sid) ==
    /\ lastCall.kind = "update" /\ lastCall.sid = sid
    /\ Len(beats[sid]) >= 2
    /\ hist[sid].clean
    /\ IF variant = "debounced" THEN lastCall.cached ELSE lastCall.file = "json"

PrevBeat(sid) == beats[sid][Len(beats[sid]) - 1]

\* C3: a heartbeat with gap >= timeout (600 included) appends {now, now} and
\* leaves the earlier intervals as they were; one with gap < timeout appends
\* nothing and changes only the end of the last interval.
C3_GapSplitsOrExtends ==
    \A sid \in SessionIds :
        CarriedCall(sid) =>
            LET b == lastCall.before.Intervals
                a == lastCall.after.Intervals
                t == lastCall.at
            IN IF t - PrevBeat(sid) >= SessionTimeoutSeconds
                 THEN /\ Len(a) = Len(b) + 1
                      /\ \A i \in 1..Len(b) : a[i] = b[i]
                      /\ a[Len(a)] = [Start |-> t, End |-> <<t>>]
                 ELSE /\ Len(a) = Len(b)
                      /\ \A i \in 1..(Len(b) - 1) : a[i] = b[i]
                      /\ a[Len(a)].Start = b[Len(b)].Start
                      /\ a[Len(a)].End = <<t>>

C3_Witness ==
    \E sid \in SessionIds :
        /\ CarriedCall(sid)
        /\ lastCall.at - PrevBeat(sid) = SessionTimeoutSeconds
        /\ Len(lastCall.after.Intervals) = Len(lastCall.before.Intervals) + 1
        /\ Len(lastCall.before.Intervals) = 2

\* C4: in every session record, total_seconds is the sum of (end - start)
\* over exactly the intervals whose end is defined.
C4_TotalIsSumOfClosed ==
    \A sid \in SessionIds :
        \A r \in RecordsOf(sid) : r.TotalSeconds = SumClosedFrom(r.Intervals, 1)

C4_Witness ==
    \E sid \in SessionIds :
        /\ lastCall.kind = "update" /\ lastCall.sid = sid
        /\ Len(lastCall.after.Intervals) = 2
        /\ lastCall.after.Intervals[1].End[1] > lastCall.after.Intervals[1].Start
        /\ lastCall.after.TotalSeconds > 0
        /\ disk[sid].kind = "json"
        /\ disk[sid].total_seconds = lastCall.after.TotalSeconds

\* C5: no session file holds an interval without an end, whatever heartbeats
\* (new session, contiguous, gapped, reinitialised after a damaged file) were
\* applied to an empty store.
C5_DiskIntervalsClosed ==
    \A sid \in SessionIds :
        disk[sid].kind = "json" =>
            \A i \in DOMAIN disk[sid].intervals : disk[sid].intervals[i].end # JNull

C5_Witness ==
    \E sid \in SessionIds :
        /\ lastCall.kind = "update" /\ lastCall.sid = sid
        /\ lastCall.file = "corrupt" /\ ~lastCall.cached
        /\ lastCall.before.Intervals[1].End = Nil
        /\ lastCall.wrote /\ lastCall.outcome = "ok"
        /\ disk[sid].kind = "json"

StartsNonDecreasing(r) ==
    \A i \in 1..(Len(r.Intervals) - 1) :
        r.Intervals[i].Start <= r.Intervals[i + 1].Start

\* C6 as stated: in every session record the intervals are in non-decreasing
\* start order, after any sequence of heartbeats.
C6_StartsNonDecreasingAlways ==
    \A sid \in SessionIds : \A r \in RecordsOf(sid) : StartsNonDecreasing(r)

\* C6 amended: in every session record the intervals are in non-decreasing
\* start order, provided the clock readings of the heartbeats are
\* non-decreasing.
C6_StartsNonDecreasing ==
    \A sid \in SessionIds :
        NonDecreasing(beats[sid]) => \A r \in RecordsOf(sid) : StartsNonDecreasing(r)

C6_Witness ==
    \E sid \in SessionIds :
        /\ NonDecreasing(beats[sid])
        /\ lastCall.kind = "update" /\ lastCall.sid = sid
        /\ Len(lastCall.after.Intervals) = 3
        /\ lastCall.after.Intervals[1].Start < lastCall.after.Intervals[2].Start
        /\ lastCall.after.Intervals[2].Start < lastCall.after.Intervals[3].Start

----------------------------------------------------------------------------
(* Properties of the write-cache, checked under SpecTracker *)

\* the last step was a call of updateSession(sid) that reached the heartbeat
CalledUpdate(sid) == lastCall.kind = "update" /\ lastCall.sid = sid

\* C23: debounced variant, one process: a call that writes the file of a
\* session comes at least the debounce window after the previous call of the
\* process that wrote it, and after every call the write-cache holds the
\* record with that call's heartbeat applied, written or not.
C23_WritesDebounced ==
    \A sid \in SessionIds :
        (variant = "debounced" /\ CalledUpdate(sid)) =>
            /\ sessionCache[sid].present
            /\ sessionCache[sid].session = Heartbeat(lastCall.before, lastCall.at)
            /\ sessionCache[sid].session.LastHeartbeat = lastCall.at
            /\ (lastCall.wrote /\ lastCall.prevWrite # Nil) =>
                   lastCall.at - Deref(lastCall.prevWrite) >= sessionWriteDebounce

\* a process wrote the file twice, and a call in between did not write
C23_Witness ==
    \E sid \in SessionIds :
        /\ variant = "debounced" /\ CalledUpdate(sid)
        /\ lastCall.wrote /\ lastCall.prevWrite # Nil
        /\ Len(beats[sid]) = MaxBeats
        /\ Deref(lastCall.prevWrite) = beats[sid][Len(beats[sid]) - 1]
        /\ sessionCache[sid].session.LastHeartbeat = lastCall.at

\* a call of the process that left the file alone while the write-cache
\* moved on
C23_WitnessSkipped ==
    \E sid \in SessionIds :
        /\ variant = "debounced" /\ CalledUpdate(sid)
        /\ ~lastCall.wrote /\ lastCall.prevWrite # Nil
        /\ sessionCache[sid].session # lastCall.before

\* C24 as stated: debounced variant, no failed write and no damaged file:
\* whenever the process may stop, the file holds the in-memory record or the
\* in-memory record as it was before the most recent heartbeat (for a call
\* that loaded the record from the file, that is the file as it is).
C24_LosesAtMostLastHeartbeat ==
    \A sid \in SessionIds :
        ( /\ variant = "debounced"
          /\ CalledUpdate(sid)
          /\ sessionCache[sid].present
          /\ hist[sid].clean )
        => \/ disk[sid] = Marshal(sessionCache[sid].session)
           \/ ~lastCall.cached
           \/ disk[sid] = Marshal(lastCall.before)

\* C27 as stated: for one session id, total_seconds after a heartbeat is not
\* below total_seconds after the heartbeat before it, and is not negative,
\* when the clock readings of the heartbeats are non-decreasing.
C27_TotalNeverDecreases ==
    \A sid \in SessionIds :
        (CalledUpdate(sid) /\ NonDecreasing(beats[sid])) =>
            /\ lastCall.after.TotalSeconds >= lastCall.prevTotal
            /\ lastCall.after.TotalSeconds >= 0

\* What holds instead: the total does not decrease over a call that
\* continues the record the heartbeat before it produced
TotalNeverDecreasesWhenCarried ==
    \A sid \in SessionIds :
        ( /\ CalledUpdate(sid) /\ NonDecreasing(beats[sid])
          /\ lastCall.before.TotalSeconds = lastCall.prevTotal
          /\ Len(beats[sid]) > 1 => lastCall.before.LastHeartbeat = PrevBeat(sid) )
        => /\ lastCall.after.TotalSeconds >= lastCall.prevTotal
           /\ lastCall.after.TotalSeconds >= 0

\* C28 as stated: debounced variant: a call of updateSession that leaves the
\* entry's dirty flag false leaves in the file exactly the entry's record,
\* whether or not the write of that call succeeded.
C28_CleanEntryIsOnDisk ==
    [][\A sid \in SessionIds :
          ( /\ variant = "debounced"
            /\ beats'[sid] # beats[sid]
            /\ sessionCache'[sid].present
            /\ ~sessionCache'[sid].dirty )
          => disk'[sid] = Marshal(sessionCache'[sid].session)]_vars

\* What holds instead: the dirty flag is false exactly after a call that
\* attempted the write, and the file holds the record when that write
\* succeeded
CleanEntryWasWritten ==
    \A sid \in SessionIds :
        (variant = "debounced" /\ CalledUpdate(sid)) =>
            /\ sessionCache[sid].dirty = ~lastCall.wrote
            /\ (lastCall.wrote /\ lastCall.outcome = "ok" /\ hist[sid].clean)
                   => disk[sid] = Marshal(sessionCache[sid].session)

----------------------------------------------------------------------------
(* Properties of readLastLines, checked under SpecReader *)

\* The newline-delimited lines of a file, front to back: every newline ends
\* a line, and bytes after the last newline are a last line
RECURSIVE SplitLines(_, _)
SplitLines(data, cur) ==
    IF data = << >>
      THEN (IF cur = << >> THEN << >> ELSE <<cur>>)
      ELSE IF Head(data) = NL
             THEN <<cur>> \o SplitLines(Tail(data), << >>)
             ELSE SplitLines(Tail(data), Append(cur, Head(data)))

NonEmptyLines(ls) == SelectSeq(ls, LAMBDA l : l # << >>)

LastN(ls, n) == IF Len(ls) <= n THEN ls ELSE SubSeq(ls, Len(ls) - n + 1, Len(ls))

ReaderReturned == rd.pc = "done" /\ ~rd.err

\* C8 as stated: readLastLines returns the empty sequence for an empty file,
\* all lines in order when the file has fewer than N lines, and exactly the
\* last N lines in order otherwise, for every file content.
C8_LastLinesOfEveryFile ==
    ReaderReturned => rd.lines = LastN(SplitLines(rd.data, << >>), rd.maxLines)

\* What the reverse reader returns instead: the last N of the non-empty
\* lines. A line of length zero (two newlines in a row, a newline at the
\* start of the file) is not returned and does not count towards N.
ReaderReturnsLastNonEmptyLines ==
    ReaderReturned =>
        rd.lines = LastN(NonEmptyLines(SplitLines(rd.data, << >>)), rd.maxLines)

\* C30 as stated: the reverse reader of src/unnamed/part_001 returns what the
\* forward reader of src/tools/statusline.go returns, for every file the
\* forward reader accepts and every N (the same lines in the same order,
\* or both an error for a path that cannot be opened).
C30_ReadersEquivalent ==
    (rd.pc = "done" /\ (rd.exists => ~rd.err)) =>
        LET fwd == ForwardReadLastLines(rd.exists, rd.data, rd.maxLines)
        IN rd.err = fwd.err /\ rd.lines = fwd.lines

\* C9: blocks are read from the end of the file towards the start, each
\* block ending where the one read before it began (none read twice), and no
\* block is read once N lines are assembled or offset 0 was reached.
C9_BlocksBackwardOnce ==
    rd.pc # "idle" =>
        \A j \in 1..Len(rd.reads) :
            LET r == rd.reads[j]
                end == IF j = 1 THEN Len(rd.data) ELSE rd.reads[j - 1].off
            IN /\ r.size > 0
               /\ r.off >= 0
               /\ r.off + r.size = end
               /\ r.have < rd.maxLines

C9_Witness ==
    /\ ReaderReturned
    /\ Len(rd.reads) = 2
    /\ rd.reads[2].off > 0
    /\ rd.reads[2].have > 0
    /\ Len(rd.lines) = rd.maxLines

----------------------------------------------------------------------------
(* Properties of a render, checked under SpecRender *)

\* The record of a session that has had its first heartbeat at t
FreshRecord(sid, t) ==
    [ ID |-> sid, Date |-> DateOf(t), Start |-> t, LastHeartbeat |-> t,
      TotalSeconds |-> 0, Intervals |-> << [Start |-> t, End |-> <<t>>] >> ]

\* the call of this render found a session file that does not parse
UpdatedFromCorrupt ==
    lastCall.kind = "update" /\ lastCall.file = "corrupt" /\ ~lastCall.cached

\* C7: when the session file exists and does not parse, updateSession
\* produces the record of a missing file (a fresh record for the id, the one
\* interval {now, now}, total_seconds 0), and the render goes on to print its
\* output and exit with status 0.
C7_CorruptFileIsFreshSession ==
    UpdatedFromCorrupt =>
        /\ lastCall.after = FreshRecord(lastCall.sid, lastCall.at)
        /\ lastCall.after = updateSession(NoFile, NoEntry, lastCall.sid, lastCall.at, "ok").after
        /\ mainPc \in {"print", "exited", "idle"}
        /\ mainPc = "print" => ENABLED MainPrint
        /\ mainPc # "print" => exitCode = "0" /\ out # << >>

C7_Witness ==
    /\ UpdatedFromCorrupt
    /\ mainPc = "exited"
    /\ exitCode = "0"
    /\ Len(out) >= 2

AllFetchersDone == \A f \in Fetchers : fpc[f] = "done"

\* C10: in a render, updateSession starts only when the four fetchers have
\* finished: main is at the call, and the call changes the session store,
\* only with every fetcher goroutine done.
C10_UpdateAfterFetchers ==
    [][ (mainPc = "update" \/ mainPc' = "update" \/ beats' # beats)
            => AllFetchersDone /\ AllFetchersDone' ]_vars

\* the update wrote the file that the aggregate query had read in this render
C10_Witness ==
    /\ mainPc = "print"
    /\ lastCall.kind = "update" /\ lastCall.wrote /\ lastCall.file = "json"
    /\ got["hours"].n = 1
    /\ AllFetchersDone

\* C11: in a render, standard output is written only after main has received
\* the Result of each of the four fetchers, whatever the order in which the
\* fetchers ran and sent.
C11_NoOutputBeforeAllResults ==
    out # << >> => \A f \in Fetchers : got[f].n = 1

\* output was written in a render whose fetchers sent in an order other than
\* the order in which main started them: the message was received before the
\* branch
C11_Witness ==
    /\ out # << >>
    /\ mainPc = "exited"
    /\ got["message"].v # ""
    /\ got["git"].v # ""

\* the step in which a process starts on a snapshot that does not decode
DecodeFailureStep == renders' # renders /\ ~input'.ok

\* C20: when the snapshot on standard input does not decode, the process
\* writes a diagnostic to the error stream and exits with a nonzero status;
\* no fetcher was started, nothing was written to standard output, and no
\* session file and no write-cache entry was created or changed.
C20_DecodeFailureIsFatal ==
    [][ DecodeFailureStep =>
          /\ exitCode' = "1"
          /\ errs' # << >>
          /\ out' = << >>
          /\ mainPc' = "exited"
          /\ fpc' = NoGoroutines /\ cpc' = "idle" /\ wg' = wg /\ results' = results
          /\ disk' = disk
          /\ sessionCache' = sessionCache ]_vars

\* a decode failure in the render after one that saved a session file
C20_Witness ==
    /\ exitCode = "1"
    /\ ~input.ok
    /\ errs # << >>
    /\ renders = 2
    /\ \E sid \in SessionIds : disk[sid].kind = "json"

----------------------------------------------------------------------------
(* Properties of getGitBranch, checked under SpecGit *)

\* C12: a call that reads the clock before the expiry of a populated cache
\* (fresh: at its check the cache held a branch and had not expired) does not
\* run the external command and returns the branch the cache held, also when
\* other calls run at the same time.
C12_FreshCacheServesCalls ==
    \A c \in Callers :
        gloc[c].fresh =>
            /\ gloc[c].cmd = "none"
            /\ gpc[c] \in {"checkCache", "runlockHit", "returned"}
            /\ gpc[c] = "returned" => gloc[c].ret = gloc[c].cached /\ gloc[c].ret # ""

\* two calls served from the cache at the same time, both inside the read lock
C12_Witness ==
    /\ \A c \in {1, 2} : gloc[c].fresh /\ gpc[c] = "runlockHit" /\ gloc[c].result \in Branches
    /\ cacheMutex.readers = {1, 2}
    /\ gitHist.cacheBy > 0

\* C13: a call whose external command failed or printed no branch returns
\* the empty string, and it neither takes the write lock nor writes the
\* cached branch or the expiry.
C13_FailedQueryLeavesCache ==
    \A c \in Callers :
        gloc[c].cmd \in {"fail", "empty"} =>
            /\ gpc[c] = "returned"
            /\ gloc[c].ret = ""
            /\ ~gloc[c].wrote
            /\ c \notin cacheMutex.writers

\* a call found the cache expired, its command printed no branch, and the
\* cache still holds what an earlier call wrote
C13_Witness ==
    \E c \in Callers :
        /\ gpc[c] = "returned"
        /\ gloc[c].cmd = "empty"
        /\ gloc[c].cached # ""
        /\ gitBranchCache = gloc[c].cached
        /\ ~gloc[c].wrote
        /\ gitHist.expBy = gitHist.cacheBy

\* C14: at most one caller holds the write lock, and then nobody holds the
\* read lock; a reader that has read both fields has read the branch and
\* the expiry of one and the same update; and while nobody writes, the two
\* fields are those of one update.
C14_CacheNeverTorn ==
    /\ Cardinality(cacheMutex.writers) <= 1
    /\ cacheMutex.writers # {} => cacheMutex.readers = {}
    /\ \A c \in Callers :
          gloc[c].seenCacheBy # -1 => gloc[c].seenCacheBy = gloc[c].seenExpBy
    /\ cacheMutex.writers = {} => gitHist.cacheBy = gitHist.expBy

\* two readers hold the read lock at once after a second update of the cache
C14_Witness ==
    /\ Cardinality(cacheMutex.readers) = 2
    /\ \E c \in cacheMutex.readers : gloc[c].seenCacheBy > 0
    /\ gitBranchCache # ""

\* The caller has found the cache empty or expired, has released the read
\* lock and is at the external command
Querying(c) == gpc[c] = "exec"

\* C31: of the callers that find the cache empty before any call has filled
\* it, at most one is at the external command: the others wait for its
\* result or are served from the cache.
C31_OneQueryPerMiss ==
    \A c, d \in Callers :
        (Querying(c) /\ Querying(d) /\ gitHist.cacheBy = 0) => c = d

\* Every caller that is at the external command holds no lock, so nothing
\* keeps a second caller from the command: what the code does guarantee
QueryHoldsNoLock ==
    \A c \in Callers :
        Querying(c) => c \notin cacheMutex.readers /\ c \notin cacheMutex.writers

----------------------------------------------------------------------------
(* Properties of the transcript scans, checked under SpecTranscript *)

\* the index of the newest line of a window that satisfies Q, 0 when none does
NewestIndex(w, Q(_)) ==
    LET S == {i \in 1..Len(w) : Q(w[i])}
    IN IF S = {} THEN 0 ELSE CHOOSE i \in S : \A j \in S : j <= i

ParsesAsJson(line) == line.k = "json"
SideChainRecord(line) == line.isSidechain = JsBool(TRUE)
UsageBearing(line) ==
    ParsesAsJson(line) /\ line.message.t = "object" /\ line.message.v.usage.t = "object"
NumberOrZero(v) == IF v.t = "number" THEN v.v ELSE 0
TokenSum(line) ==
    LET u == line.message.v.usage.v
    IN NumberOrZero(u.input_tokens) + NumberOrZero(u.cache_read_input_tokens)
         + NumberOrZero(u.cache_creation_input_tokens)
QualifiesForUsage(line) == UsageBearing(line) /\ ~SideChainRecord(line)
QualifiesForPositiveUsage(line) == QualifiesForUsage(line) /\ TokenSum(line) > 0

ContextAnalyzed == tx.pc = "ready" /\ tx.ctxDone
MessageExtracted == tx.pc = "ready" /\ tx.msgDone

\* C15: calculateContextUsage returns the token sum of the newest record,
\* among the last MaxTranscriptLines lines of the transcript, that parses,
\* is not a side-chain record and has a message.usage object (0 when there
\* is none); no older record has a part in the result.
C15_UsageOfNewestRecord ==
    (ContextAnalyzed /\ tx.path = "transcript") =>
        LET w == LastN(tx.lines, MaxTranscriptLines)
            i == NewestIndex(w, QualifiesForUsage)
        IN tx.ctx.contextLength = IF i = 0 THEN 0 ELSE TokenSum(w[i])

\* What calculateContextUsage returns: the token sum of the newest record
\* with a positive sum among the lines readLastLines returned
ContextUsageIsNewestPositiveSum ==
    (ContextAnalyzed /\ tx.path = "transcript") =>
        LET w == LastLinesOf(variant, tx.lines, MaxTranscriptLines)
            i == NewestIndex(w, QualifiesForPositiveUsage)
        IN tx.ctx.contextLength = IF i = 0 THEN 0 ELSE TokenSum(w[i])

\* C16: when every record with a usage object among the scanned lines is a
\* side-chain record, the context usage is 0; it is 0 too for the empty
\* transcript path and for a path that cannot be opened.
C16_SidechainNeverCounts ==
    ContextAnalyzed =>
        /\ tx.path # "transcript" => tx.ctx.contextLength = 0
        /\ LET w == LastLinesOf(variant, tx.lines, MaxTranscriptLines)
           IN (tx.path = "transcript" /\
                \A i \in 1..Len(w) : UsageBearing(w[i]) => SideChainRecord(w[i]))
                    => tx.ctx.contextLength = 0

\* the newest scanned line is a side-chain record with a positive token sum
\* and the usage is 0
C16_Witness ==
    /\ ContextAnalyzed
    /\ tx.path = "transcript"
    /\ Len(tx.lines) = MaxTxLen
    /\ UsageBearing(Last(tx.lines)) /\ SideChainRecord(Last(tx.lines))
    /\ TokenSum(Last(tx.lines)) > 0
    /\ tx.ctx.contextLength = 0

\* a / b rounded to the nearest integer, halves up (a >= 0, b > 0)
RoundNearest(a, b) == (2 * a + b) \div (2 * b)

SeverityColour(percentage) ==
    IF percentage < 60 THEN "ColorCtxGreen"
    ELSE IF percentage < 80 THEN "ColorCtxGold" ELSE "ColorCtxRed"

\* C17: the percentage of analyzeContext is min(100, round(100 * t /
\* MaxContextTokens)), rounded to the nearest integer, for the token count t,
\* and the severity colour is the one of that value.
C17_PercentageRounded ==
    ContextAnalyzed =>
        LET t == tx.ctx.contextLength
            p == Min(100, RoundNearest(100 * t, MaxContextTokens))
        IN tx.ctx.percentage = p /\ tx.ctx.color = SeverityColour(p)

\* What analyzeContext computes: the quotient truncated, capped at 100
PercentageIsTruncated ==
    ContextAnalyzed =>
        LET t == tx.ctx.contextLength
            p == Min(100, (100 * t) \div MaxContextTokens)
        IN tx.ctx.percentage = p /\ tx.ctx.color = SeverityColour(p)

ToolOutputTags == {"<local-command-stdout>", "<bash-stdout>", "<bash-stderr>", "<bash-input>"}

ClassifiedSystemMessage(content) ==
    LET n == Len(content)
    IN \/ n > 0 /\ content[1] = "[" /\ content[n] = "]"
       \/ n > 0 /\ content[1] = "{" /\ content[n] = "}"
       \/ \E i \in 1..n : content[i] \in ToolOutputTags
       \/ n > 0 /\ content[1] = "Caveat:"

QualifiesAsUserMessage(line) ==
    /\ ParsesAsJson(line)
    /\ ~SideChainRecord(line)
    /\ line.sessionId = JsString(tx.sid)
    /\ line.type = JsString("user")
    /\ line.message.t = "object"
    /\ line.message.v.role = JsString("user")
    /\ line.message.v.content.t = "string"
    /\ ~ClassifiedSystemMessage(line.message.v.content.v)

\* C18: extractUserMessage returns the formatted content of the newest
\* record, among the last MaxUserSearchLines lines of the transcript, that
\* is not a side-chain record, is of the current session, has type and role
\* "user" and a string content that is not a system message; the empty
\* result when there is none.
C18_NewestQualifyingUserMessage ==
    (MessageExtracted /\ tx.path = "transcript") =>
        LET w == LastN(tx.lines, MaxUserSearchLines)
            i == NewestIndex(w, QualifiesAsUserMessage)
        IN tx.msg = IF i = 0 THEN << >> ELSE formatUserMessage(w[i].message.v.content.v)

\* What extractUserMessage returns: the same over the lines readLastLines
\* returned
UserMessageIsNewestOfLinesRead ==
    (MessageExtracted /\ tx.path = "transcript") =>
        LET w == LastLinesOf(variant, tx.lines, MaxUserSearchLines)
            i == NewestIndex(w, QualifiesAsUserMessage)
        IN tx.msg = IF i = 0 THEN << >> ELSE formatUserMessage(w[i].message.v.content.v)

----------------------------------------------------------------------------
(* Properties of calculateTotalHours, checked under SpecHours *)

\* the entries of a directory that are session files of a day: the name ends
\* in ".json" and the file can be read, parses and is of that day
SessionsOfDay(dir, day) ==
    {n \in DOMAIN dir :
        /\ n[Len(n)] = ".json"
        /\ dir[n] \notin {CorruptFile, UnreadableFile}
        /\ dir[n].date = day}

RECURSIVE SecondsOf(_, _)
SecondsOf(names, dir) ==
    IF names = {} THEN 0
    ELSE LET n == CHOOSE m \in names : TRUE
         IN dir[n].total_seconds + SecondsOf(names \ {n}, dir)

HoursQueried == hq.pc = "done" /\ hq.exists

\* C19: for every session directory, the total of calculateTotalHours is
\* the sum of total_seconds over the readable, parseable .json files dated
\* today, the active count is the number of those with now - last_heartbeat
\* below the timeout, the other entries are skipped and the query ends with
\* a result, and no file of the directory has changed.
C19_TotalOfTodaysSessions ==
    /\ HoursQueried =>
          LET today == SessionsOfDay(hq.listed, DateOf(now))
          IN /\ hq.tally.totalSeconds = SecondsOf(today, hq.listed)
             /\ hq.tally.activeSessions =
                    Cardinality({n \in today :
                        now - hq.listed[n].last_heartbeat < SessionTimeoutSeconds})
             /\ hq.text = FormatHours(hq.tally.totalSeconds, hq.tally.activeSessions)
    /\ hq.pc # "idle" => hq.dir = hq.listed
    /\ hq.pc # "idle" => ENABLED (HqReadDir \/ HqReadFiles) \/ hq.pc = "done"

\* a directory with two sessions of today, one active and one not, and a
\* file that does not parse; the total is the sum of the two
C19_Witness ==
    /\ HoursQueried
    /\ Cardinality(SessionsOfDay(hq.listed, DateOf(now))) = 2
    /\ hq.tally.activeSessions = 1
    /\ hq.tally.totalSeconds = 3690
    /\ \E n \in DOMAIN hq.listed : hq.listed[n] = CorruptFile

----------------------------------------------------------------------------
(* Properties of the completion of a render, checked under SpecRenderFair
   and SpecRenderQueryMayHang *)

\* main is past the decode of a well-formed snapshot and has not printed
Rendering == mainPc \in {"collect", "update", "print"}

\* the process has printed the status text and exited with status 0
Emitted ==
    /\ mainPc = "exited"
    /\ exitCode = "0"
    /\ out = Output
    /\ \E i \in 1..Len(out) : out[i].seg \in {"status", "second"}

\* the failures of this render that updateSession absorbed
SessionFileMissing == lastCall.kind = "update" /\ lastCall.file = "missing"
SessionFileCorrupt == lastCall.kind = "update" /\ lastCall.file = "corrupt"
SessionWriteFailed ==
    lastCall.kind = "update" /\ lastCall.wrote /\ lastCall.outcome # "ok"
SessionDirFailed == lastCall.kind = "nodir"

\* C21: for every well-formed snapshot the render reaches the output step
\* and prints the status text, with exit status 0, whichever of the absorbed
\* failures occur: a process that decoded its input ends only by printing,
\* and every render that started does print. A session file that is
\* missing or does not parse gives the fresh record, and a fetcher that
\* failed gives its empty value to the output.
C21_RenderEmitsStatus ==
    /\ [](mainPc = "exited" /\ input.ok => Emitted)
    /\ [](Rendering => exitCode = "none" /\ out = << >>)
    /\ []((SessionFileMissing \/ SessionFileCorrupt) =>
              lastCall.after = FreshRecord(lastCall.sid, lastCall.at))
    /\ (Rendering ~> Emitted)

\* a render printed although the branch query failed, no user message was
\* found, the session file did not parse and the new one could not be written
C21_Witness ==
    /\ Emitted
    /\ got["git"].v = "" /\ got["message"].v = ""
    /\ got["hours"].v = ZeroMinutes
    /\ SessionFileCorrupt
    /\ SessionWriteFailed
    /\ errs # << >>

\* a render printed although the session directory could not be created
C21_WitnessNoDir ==
    /\ Emitted
    /\ SessionDirFailed
    /\ got["git"].v = ""

\* C22 as stated: the render prints and the process ends even when the
\* external branch query never returns.
C22_RenderEndsThoughQueryHangs == Rendering ~> (mainPc = "exited")

\* What the fan-in keeps at every moment of a render: no fetcher has sent on
\* a closed channel, a fetcher that is about to send finds room in the
\* buffer of an open channel, the channel is closed only after the four
\* sends and cannot be closed again, no type is received twice, and main is
\* past the loop only with each of the four types received once and the
\* channel closed and drained
FanInSafe ==
    /\ \A f \in Fetchers : fpc[f] # "panic"
    /\ \A f \in Fetchers : fpc[f] = "send" => ~closed /\ Len(results) < ResultsCap
    /\ closed => (\A f \in Fetchers : fpc[f] \in {"done", "idle"}) /\ ~ENABLED CloserClose
    /\ \A f \in Fetchers : got[f].n <= 1
    /\ (mainPc \in {"update", "print"}) =>
           /\ \A f \in Fetchers : got[f].n = 1
           /\ closed /\ results = << >>
    /\ mainPc = "collect" => ENABLED (GoroutineStep \/ BranchQueryReturns)

\* C25: when each fetcher returns, in every interleaving the fan-in is safe
\* in the sense above and completes: the collection loop exits, with the
\* four results received.
C25_FanInCompletes ==
    /\ []FanInSafe
    /\ (mainPc = "collect") ~>
           (mainPc = "update" /\ \A f \in Fetchers : got[f].n = 1)

\* the four fetchers had all sent before main received anything: the
\* buffer was full and nobody was blocked
C25_WitnessFullBuffer ==
    /\ mainPc = "collect"
    /\ Len(results) = ResultsCap
    /\ \A f \in Fetchers : got[f].n = 0

\* the loop has exited with the four results, the one received last being
\* the branch
C25_Witness ==
    /\ mainPc = "update"
    /\ closed
    /\ \A f \in Fetchers : got[f].n = 1 /\ fpc[f] = "done"

----------------------------------------------------------------------------
(* Properties of concurrent updateSession calls, checked under SpecHost *)

\* the calls between sessionCacheMutex.Lock() and the deferred Unlock()
HostInside == {c \in Callers : host.pc[c] \in {"load", "beat", "write", "unlock"}}

HostAllDone == \A c \in Callers : host.pc[c] = "done"

\* sessionCache[sid] dereferenced
HostEntry == IF host.cache = Nil THEN NoEntry ELSE host.heap[Deref(host.cache)]

\* The calls run one after another in the given order, each whole call with
\* its own clock readings, from a file and an entry
RECURSIVE SeqCalls(_, _, _)
SeqCalls(order, file, entry) ==
    IF order = << >>
      THEN [file |-> file, entry |-> entry]
      ELSE LET l == host.loc[Head(order)]
               r == UpdateSessionDebouncedAt(file, entry, HostSession,
                                             l.t, l.tLoad, l.tWrite, l.outcome)
           IN SeqCalls(Tail(order), r.file, r.entry)

\* C26: debounced variant in a long-lived host: at most one call at a time
\* is between the load and the end of the write, and it holds the lock; when
\* the calls have returned, the write-cache entry and the session file are
\* those of the calls run one after another in the order in which they took
\* the lock, every call having worked on the one cached entry (no heartbeat
\* went to an entry that is not in the cache).
C26_CallsSerialised ==
    /\ Cardinality(HostInside) <= 1
    /\ \A c \in HostInside : host.mutex = c
    /\ HostAllDone =>
          LET r == SeqCalls(host.order, host.file, host.entry)
          IN /\ HostEntry = r.entry
             /\ disk[HostSession] = r.file
             /\ \A c \in Callers : host.loc[c].entry = host.cache
             /\ HostEntry.session.LastHeartbeat = host.loc[Last(host.order)].t

\* two calls returned, the first created the entry from the file, both
\* wrote, and the second had waited for the lock across a clock tick
C26_Witness ==
    /\ HostAllDone
    /\ Len(host.order) >= 2
    /\ ~host.entry.present
    /\ \E c \in Callers : host.loc[c].tLoad > host.loc[c].t
    /\ disk[HostSession] = Marshal(HostEntry.session)
    /\ disk[HostSession] # host.file

\* the call that took the lock last had read the clock first: its older
\* reading is the last heartbeat of the record
C26_WitnessStaleReading ==
    /\ HostAllDone
    /\ Len(host.order) >= 2
    /\ host.loc[host.order[1]].t > host.loc[host.order[2]].t
    /\ HostEntry.session.LastHeartbeat = host.loc[host.order[2]].t

----------------------------------------------------------------------------
(* Properties of updateSession run by several processes, checked under
   SpecProcs *)

ProcsAllDone == \A p \in Processes : procs.pc[p] = "done"

ProcsAllWrote == \A p \in Processes : ~procs.loc[p].failed

\* the process read the file while it did not parse, and started a new
\* session
ProcReinitialised(p) ==
    procs.pc[p] \in {"open", "write", "done"} /\ procs.loc[p].data.kind = "corrupt"

\* the file holds a record with at least the total and the intervals of the
\* file the processes started from
ProcFileKept ==
    procs.file.kind = "json" =>
        /\ disk[ProcSession].kind = "json"
        /\ disk[ProcSession].total_seconds >= procs.file.total_seconds
        /\ Len(disk[ProcSession].intervals) >= Len(procs.file.intervals)

\* C29 as stated: write-through variant, processes running updateSession for
\* one session id with their steps interleaved and every write succeeding:
\* when all have finished the file's total_seconds and interval list are not
\* smaller than before they started, and no process has read a partly
\* written file as corrupt and started a new session.
C29_InterleavedUpdatesKeepRecord ==
    (ProcsAllDone /\ ProcsAllWrote) =>
        /\ ProcFileKept
        /\ \A p \in Processes : ~ProcReinitialised(p)

\* the clock reading of the process was not older than the last heartbeat
\* of the file it read
ProcReadingCurrent(p) ==
    procs.loc[p].data.kind = "json" =>
        procs.loc[p].t >= procs.loc[p].data.last_heartbeat

\* What holds instead: the record is kept when no process read the file
\* between another's open and write, nor read it with a clock reading taken
\* before the heartbeat the file holds
ProcFileKeptUnlessReinitialised ==
    ( /\ ProcsAllDone /\ ProcsAllWrote
      /\ \A p \in Processes : ~ProcReinitialised(p) /\ ProcReadingCurrent(p) )
    => ProcFileKept
----------------------------------------------------------------------------
(* The aggregate time of a render and the render's own heartbeat, checked
   under SpecRenderHours *)

\* The aggregate time in what main printed
ShownHours(o) ==
    LET i == CHOOSE j \in DOMAIN o : o[j].seg \in {"status", "second"}
    IN o[i].hours

\* calculateTotalHours over the session store as it is now
HoursOfStore(store, t) ==
    LET entries == {SessionFileName(sid) : sid \in {x \in SessionIds : store[x].kind # "missing"}}
    IN calculateTotalHours(entries, [n \in entries |-> store[n[1]]], t)

\* the step in which main's updateSession is applied, and the step in which
\* main prints
OwnHeartbeatStep == mainPc = "update" /\ mainPc' = "print" /\ lastCall'.kind = "update"
PrintStep == mainPc = "print" /\ mainPc' = "exited"

\* C32: when a render applies its own heartbeat, calculateTotalHours has
\* returned and main has received its result, which the heartbeat does not
\* change and which main prints: with no fault in the render it is the
\* aggregate of the session files as they are right before the heartbeat,
\* and the file of a session that is new in this render was not listed.
C32_HoursBeforeOwnHeartbeat ==
    [][ /\ OwnHeartbeatStep =>
              /\ fpc["hours"] = "done"
              /\ got["hours"].n = 1
              /\ got'["hours"] = got["hours"]
              /\ faults = 0 => got["hours"].v = HoursOfStore(disk, now)
              /\ lastCall'.file = "missing" =>
                     SessionFileName(input.SessionID) \notin floc["hours"].entries
        /\ PrintStep => ShownHours(out') = got["hours"].v ]_vars

\* a render has printed "1m" for a session whose file, after the render's
\* own heartbeat, holds two minutes
C32_Witness ==
    /\ mainPc = "exited"
    /\ exitCode = "0"
    /\ lastCall.kind = "update" /\ lastCall.wrote /\ lastCall.outcome = "ok"
    /\ ShownHours(out) = "1m"
    /\ HoursOfStore(disk, now) = "2m"

\* the first render of a new session has printed: its file was not there when
\* the directory was listed, and is there now
C32_WitnessNewSession ==
    /\ mainPc = "exited"
    /\ exitCode = "0"
    /\ lastCall.kind = "update" /\ lastCall.file = "missing"
    /\ floc["hours"].entries = {}
    /\ disk[input.SessionID].kind = "json"
    /\ ShownHours(out) = "0m"

====
